---- MODULE Spec2Model ----
(***************************************************************************)
(* A model of my-redis: the server's accept loop, connection handlers and  *)
(* shutdown rendezvous (src/src/server.rs, src/src/shutdown.rs), the       *)
(* shared store with its expiration purger and pub/sub map                 *)
(* (src/src/db.rs) and the commands applied to it (src/src/cmd/).          *)
(*                                                                         *)
(* The server runs on tokio's multi-worker runtime, so the unit of         *)
(* atomicity is one synchronisation operation (a critical section of the   *)
(* store's mutex, one operation on a semaphore, channel or notifier)       *)
(* together with the task-local computation next to it.  Every suspension  *)
(* point of the code (an .await) is a position of its own.                 *)
(*                                                                         *)
(* The specifications share Init and the variables, and each runs the      *)
(* part of the program its properties are about:                           *)
(*   SpecServer, LiveServer  run, Listener and the handler tasks           *)
(*   LiveAccept              the same with an accept that may fail         *)
(*   LiveResume              the same with the sessions ended by their     *)
(*                           clients recorded                              *)
(*   LivePeer                the same with clients that close their        *)
(*                           sockets                                       *)
(*   SpecDb, LiveDb          the store under one connection, the purge     *)
(*                           task and the drop of the store's guard        *)
(*   LiveOverwrite           the store under SETs that replace the         *)
(*                           expiration of one key                         *)
(*   SpecVis                 the store under two connections               *)
(*   SpecPipe                one connection and its pipelined requests     *)
(*   SpecPubSub              subscribe sessions and publishers             *)
(*   SpecSession, LiveSession  one session, the frames it writes and       *)
(*                           reads, and the values its Receivers retain    *)
(*   SpecOrder               one session and the order of the values sent  *)
(*                           and of the Receivers created                  *)
(*   SpecCodec               Frame::check, Frame::parse and write_frame    *)
(*                           on bytes                                      *)
(*   SpecReader              read_frame on the bytes of a peer that wrote  *)
(*                           frames and closed                             *)
(***************************************************************************)
EXTENDS Integers, Sequences, FiniteSets, TLC

(***************************************************************************)
(* Bounds of the model.                                                    *)
(***************************************************************************)
\* src/src/server.rs:60 sets 250; the model runs the same code with fewer permits.
MAX_CONNECTION == 2
\* Connections the clients open over one run of the server.
MaxConns == 3
\* src/src/server.rs:181: the accept loop gives up once backoff exceeds this.
BackoffLimit == 64

\* Clock ticks of one run of the store, and the longest TTL a SET carries.
MaxTime == 2
MaxTtl == 1
\* The longest expiration of a SET where an expiration replaces another.
MaxDelay == 2
\* Requests a client writes on one connection.
MaxReqs == 3
\* Channel names in one SUBSCRIBE.
MaxChans == 2
\* src/src/db.rs:199 gives every broadcast channel room for 1024 messages; the
\* model runs the same code with less room.
Capacity == 1
\* Values sent to at least one Receiver over one run.
MaxPubs == 3
\* Frames a subscribed client has written that its session has not read.
MaxPending == 1
\* Pieces of wire text in one input of the decoder.
MaxPieces == 4
\* Frames a peer writes before it closes, and the most bytes one read takes.
MaxFrames == 2
MaxChunk == 3

Conns == 1..MaxConns
Listener == 0

\* Keys, values and the connections whose handlers use the store.
Keys == {"k1", "k2"}
Values == {"v1", "v2"}
Clients == {"c1", "c2"}
\* Channels and the connections in a subscribe session.
Channels == {"ch1", "ch2"}
Sessions == {"s1", "s2"}

\* Option<T>
None == <<>>
Some(x) == <<x>>

\* Frame (src/src/frame.rs)
Simple(str) == [type |-> "Simple", val |-> str]
Bulk(b) == [type |-> "Bulk", val |-> b]
Null == [type |-> "Null", val |-> ""]
Integer(n) == [type |-> "Integer", val |-> n]
Error(msg) == [type |-> "Error", val |-> msg]
Array(items) == [type |-> "Array", val |-> items]

\* A request as the client writes it: an Array of Bulk frames.
Request(strs) == Array([i \in DOMAIN strs |-> Bulk(strs[i])])

\* Set::into_frame: the frame Client::set_cmd writes, the TTL in milliseconds
\* pushed as one Integer.
SetIntoFrame(key, value, expire) ==
    Array(<<Bulk("set"), Bulk(key), Bulk(value)>>
              \o (IF expire = None THEN <<>> ELSE <<Integer(expire[1])>>))

\* The requests a client pipelines; <<"get">>, <<"subscribe">>, <<"ping", "m1",
\* "m2">> and a GET whose key is an Integer frame do not parse; "foo" and "FOO"
\* are no command; the last is what Client::set_expires writes.
Requests ==
    {Request(r) : r \in {<<"ping">>, <<"ping", "m1">>, <<"get", "k1">>, <<"set", "k1", "v1">>,
                         <<"set", "k1", "v2">>, <<"foo">>, <<"get">>, <<"ping", "m1", "m2">>,
                         <<"PING">>, <<"FOO", "k1">>, <<"subscribe">>}}
        \cup {Array(<<Bulk("get"), Integer(1)>>), SetIntoFrame("k1", "v1", Some(MaxTtl))}

VARIABLES
    \* server::run and Listener::run (src/src/server.rs)
    runPc,        \* position of server::run
    sigint,       \* the `shutdown` future passed to server::run has resolved
    lPc,          \* position of Listener::run / Listener::accept
    backoff,      \* Listener::accept's local `backoff`
    permits,      \* permits available in limit_connection
    permitHeld,   \* holders of an OwnedSemaphorePermit (Listener or a handler task)
    notifyAlive,  \* the broadcast sender notify_shutdown has not been dropped
    txHolders,    \* holders of a clone of shutdown_complete_tx
    spawned,      \* number of handler tasks spawned so far
    \* Handler (one per connection)
    hPc,          \* position of the handler task
    isShutdown,   \* Shutdown::is_shutdown
    peerClosed,   \* the handler has seen end of stream on its socket
    hResult,      \* what Handler::run returned
    sessAtDrop,   \* history: unfinished handlers that were in a session when
                  \* notify_shutdown was dropped and have left it, if at all, by
                  \* its shutdown branch
    failures,     \* history: accepts that failed since the last one that succeeded
    slept         \* history: the seconds slept since the last accept that succeeded

VARIABLES
    \* DbDropGuard and the purge task's control state (src/src/db.rs)
    guardPc,      \* position of DbDropGuard::drop: "held", "flagged", "dropped"
    shutdown,     \* State::shutdown
    bgPermit      \* Shared::background_task (Notify) stores a wake-up

VARIABLES
    \* the store (src/src/db.rs)
    now,          \* Instant::now()
    entries,      \* State::entries: key -> [data, expires_at]
    expirations,  \* State::expirations: set of <<instant, key>>
    purgerPc,     \* position of purge_expired_tasks
    purgerWhen,   \* the instant purge_expired_tasks sleeps until
    \* a handler applying GET or SET (src/src/cmd/get.rs, src/src/cmd/set.rs)
    cPc,          \* "select", "notify" (in Db::set, lock released), "write"
    cCmd,         \* the command being applied
    cNotify,      \* Db::set's local `notify`
    cResp,        \* the response frame passed to write_frame
    \* history
    lastSet,      \* per key, the SET applied last: [data, expires_at]
    acked,        \* keys for which "OK" was written in reply to a SET without TTL
    cleared,      \* per key whose expiration a later SET removed: the former instant
    moved         \* per key whose expiration a later SET replaced before it was
                  \* reached: the former instant

srvVars == <<runPc, sigint, lPc, backoff, permits, permitHeld, notifyAlive,
             txHolders, spawned, hPc, isShutdown, peerClosed, hResult,
             sessAtDrop, failures, slept>>
guardVars == <<guardPc, shutdown, bgPermit>>

dbVars == <<now, entries, expirations, purgerPc, purgerWhen>>
cmdVars == <<cPc, cCmd, cNotify, cResp>>
histVars == <<lastSet, acked, cleared, moved>>

VARIABLES
    \* one connection and its pipelined requests (src/src/connection.rs)
    sent,         \* history: every request frame the client has written
    wire,         \* request frames in the socket, not yet read
    pipeClosed,   \* the client has closed its side of the socket
    buffer,       \* Connection::buffer, in whole frames
    pPc,          \* position of Handler::run on this connection
    pCmd,         \* the Command being applied
    pResp,        \* the response frame passed to write_frame
    wbuf,         \* frames in the BufWriter, not flushed
    outq,         \* reply frames flushed to the socket
    applied       \* history: number of commands applied

pipeVars == <<sent, wire, pipeClosed, buffer, pPc, pCmd, pResp, wbuf, outq, applied>>

VARIABLES
    \* channels (src/src/db.rs, src/src/cmd/subscribe.rs, src/src/cmd/publish.rs)
    pubSub,       \* State::pub_sub: channel -> receiver count of its broadcast Sender
    sPc,          \* position of Subscribe::apply in each session
    sTodo,        \* Subscribe::channels not yet subscribed to
    sLocal,       \* subscribe_to_channel's local `rx`: the channel it receives from
    sStreams,     \* keys of the session's StreamMap `subscriptions`
    pubResp,      \* the response of the last Publish::apply
    lastPub       \* history: the last publish, with who held what at its send

pubVars == <<pubSub, sPc, sTodo, sLocal, sStreams, pubResp, lastPub>>

VARIABLES
    \* messages of a subscribe session (src/src/cmd/subscribe.rs)
    npub,         \* history: number of values sent that a Receiver was there for
    sRx,          \* per session and StreamMap key: what its Receiver has to read
    sRxLocal,     \* the same for subscribe_to_channel's local `rx`
    sMsg,         \* the frame the session is writing
    sOut,         \* history: frames the session has written to its client
    sIn,          \* frames the client has written, not yet read
    sLagged,      \* history: the session was handed RecvError::Lagged
    sResult,      \* what Subscribe::apply returned
    sReq,         \* history: Subscribe::channels as the session started with them
    sDue,         \* history: <<channel, value>> sent while the StreamMap had the channel
    sLastRead     \* history: the frame the session's read_frame yielded last

msgVars == <<npub, sRx, sRxLocal, sMsg, sOut, sIn, sLagged, sResult, sReq, sDue,
            sLastRead>>

VARIABLES
    \* the order of the values sent and of the Receivers created
    pubLog,       \* history: the channel of the i-th value sent that a Receiver was there for
    sBorn         \* history, per session: how many values had been sent when the
                  \* Receiver in `rx`, and the one under each StreamMap key, was created

orderVars == <<pubLog, sBorn>>

VARIABLES
    \* the clients' side of the connections
    hungUp,       \* per connection: "no", or how the client closed its socket:
                  \* "clean" after a whole frame, "midframe" inside one
    resumed       \* history: connections that have left a subscribe session by
                  \* the client's Simple("shutdown")

peerVars == <<hungUp, resumed>>

VARIABLES
    src,          \* the bytes handed to Frame::check and Frame::parse
    codecPc,      \* "idle", "check", "parse", "write", "reparse" or "done"
    checkRes,     \* what Frame::check returned
    parseRes,     \* what Frame::parse returned
    writeRes,     \* what Connection::write_frame put on the socket
    reparseRes,   \* what Connection::parse_frame made of the bytes written
    rdSent,       \* history: the frames the peer wrote
    rdStream,     \* history: the bytes the peer delivered before it closed
    rdSock,       \* bytes of the peer the reader's socket still holds
    rdBuf,        \* Connection.buffer of the reader
    rdOut,        \* what the calls of read_frame returned, in order
    rdPc          \* "idle", "parse", "read" or "done"

codecVars == <<src, codecPc, checkRes, parseRes, writeRes, reparseRes>>
readerVars == <<rdSent, rdStream, rdSock, rdBuf, rdOut, rdPc>>

\* Everything but the server's variables and the guard's.
dataVars == <<dbVars, cmdVars, histVars, pipeVars, pubVars, msgVars, orderVars,
              codecVars, readerVars>>
restVars == <<dataVars, peerVars>>
\* Everything but the store's variables, its users' and the guard's.
outsideDb ==
    <<srvVars, pipeVars, pubVars, msgVars, orderVars, peerVars, codecVars, readerVars>>
\* What a handler applying pipelined requests leaves alone.
outsidePipe ==
    <<srvVars, guardPc, shutdown, now, purgerPc, purgerWhen, cmdVars, histVars, pubVars,
      msgVars, orderVars, peerVars, codecVars, readerVars>>
\* What subscribers and publishers leave alone, but for the order recorded.
outsideChannels ==
    <<srvVars, guardVars, dbVars, cmdVars, histVars, pipeVars, peerVars, codecVars,
      readerVars>>
\* What subscribers and publishers leave alone.
outsidePubSub == <<outsideChannels, orderVars>>
\* What the frame codec and a reader of frames leave alone.
outsideCodec ==
    <<srvVars, guardVars, dbVars, cmdVars, histVars, pipeVars, pubVars, msgVars,
      orderVars, peerVars>>

vars == <<srvVars, guardVars, restVars>>

(***************************************************************************)
(* DbDropGuard::drop -> Db::shutdown_purge_task: the flag is set under the *)
(* lock, the lock is released, then the notifier is signalled.             *)
(***************************************************************************)
GuardInit ==
    /\ guardPc = "held"
    /\ shutdown = FALSE
    /\ bgPermit = FALSE

\* A notifier that wakes only a task already waiting on it.
NotifyOneWaiting == bgPermit' = (bgPermit \/ purgerPc \in {"sleep", "wait"})

\* Notify::notify_one: wakes the waiting purge task or stores one permit.
NotifyOne == bgPermit' = TRUE

ShutdownSetFlag ==
    /\ guardPc = "held"
    /\ shutdown' = TRUE
    /\ guardPc' = "flagged"
    /\ UNCHANGED bgPermit

ShutdownNotify ==
    /\ guardPc = "flagged"
    /\ NotifyOne
    /\ guardPc' = "dropped"
    /\ UNCHANGED shutdown

(***************************************************************************)
(* The store: Db::get, Db::set, Shared::purge_expired_keys and the purge   *)
(* task.  Every critical section of State's mutex is one step.             *)
(***************************************************************************)
NoCmd == [name |-> "none", key |-> "", value |-> "", expire |-> None, msg |-> None]
NoFrame == [type |-> "none", val |-> ""]

StoreInit ==
    /\ now = 0
    /\ entries = <<>>
    /\ expirations = {}
    /\ purgerPc = "check"
    /\ purgerWhen = None
    /\ cPc = [c \in Clients |-> "select"]
    /\ cCmd = [c \in Clients |-> NoCmd]
    /\ cNotify = [c \in Clients |-> FALSE]
    /\ cResp = [c \in Clients |-> NoFrame]
    /\ lastSet = <<>>
    /\ acked = {}
    /\ cleared = <<>>
    /\ moved = <<>>

\* The first element of the BTreeSet: the tuple with the smallest instant.
First(exp) == CHOOSE e \in exp : \A f \in exp : e[1] <= f[1]

\* State::next_expiration
NextExpiration(exp) == IF exp = {} THEN None ELSE Some(First(exp)[1])

\* HashMap::remove
MapKeep(map, key) == map
MapRemove(map, key) == [k \in (DOMAIN map) \ {key} |-> map[k]]

\* HashMap::insert
MapInsertIfAbsent(map, key, val) ==
    [k \in (DOMAIN map) \cup {key} |-> IF k \in DOMAIN map THEN map[k] ELSE val]
MapInsert(map, key, val) == [k \in (DOMAIN map) \cup {key} |-> IF k = key THEN val ELSE map[k]]

\* A Db::get that looks at the entry's expiration.
DbGetUnexpired(key) ==
    IF key \in DOMAIN entries
       /\ (entries[key].expires_at = None \/ now < entries[key].expires_at[1])
    THEN Some(entries[key].data) ELSE None

\* Db::get
DbGet(key) == IF key \in DOMAIN entries THEN Some(entries[key].data) ELSE None

\* Db::set, the instant the new entry expires at.
SetWhen(expire) == IF expire = None THEN None ELSE Some(now + expire[1])

\* Db::set, the local `notify`: the new instant is strictly earlier than the
\* earliest one in the index as it is before the insertion, or the index is empty.
SetNeverNotifies(expire) == FALSE
SetNotifiesWhenEmpty(expire) == expire # None /\ NextExpiration(expirations) = None
SetNotifiesOrEqual(expire) ==
    /\ expire # None
    /\ LET next == NextExpiration(expirations)
       IN  IF next = None THEN TRUE ELSE next[1] >= SetWhen(expire)[1]
SetNotifies(expire) ==
    /\ expire # None
    /\ LET next == NextExpiration(expirations)
       IN  IF next = None THEN TRUE ELSE next[1] > SetWhen(expire)[1]

\* Db::set, the index once the tuple of the entry that was replaced is removed.
SetKeepsStale(key) == expirations
SetRemovesPrev(key) ==
    IF key \in DOMAIN entries /\ entries[key].expires_at # None
    THEN expirations \ {<<entries[key].expires_at[1], key>>}
    ELSE expirations

\* A Db::set that leaves an entry the expiration it has.
DbSetFirstDeadline(key, value, expire) ==
    LET old == IF key \in DOMAIN entries THEN entries[key].expires_at ELSE None
        when == IF old # None /\ expire # None THEN old ELSE SetWhen(expire)
        pruned == SetRemovesPrev(key)
    IN  /\ entries' = MapInsert(entries, key, [data |-> value, expires_at |-> when])
        /\ expirations' = IF when # None THEN pruned \cup {<<when[1], key>>} ELSE pruned

\* Db::set, the part under the lock.
DbSet(key, value, expire) ==
    LET when == SetWhen(expire)
        pruned == SetRemovesPrev(key)
    IN  /\ entries' = MapInsert(entries, key, [data |-> value, expires_at |-> when])
        /\ expirations' = IF when # None THEN pruned \cup {<<when[1], key>>} ELSE pruned

\* Shared::purge_expired_keys, the while loop over the index at instant t.
RECURSIVE PurgeLoopStrict(_, _, _)
PurgeLoopStrict(ent, exp, t) ==
    IF exp = {} THEN [entries |-> ent, expirations |-> exp, next |-> None]
    ELSE LET first == First(exp)
         IN  IF first[1] >= t
             THEN [entries |-> ent, expirations |-> exp, next |-> Some(first[1])]
             ELSE PurgeLoopStrict(MapRemove(ent, first[2]), exp \ {first}, t)

RECURSIVE PurgeLoop(_, _, _)
PurgeLoop(ent, exp, t) ==
    IF exp = {} THEN [entries |-> ent, expirations |-> exp, next |-> None]
    ELSE LET first == First(exp)
         IN  IF first[1] > t
             THEN [entries |-> ent, expirations |-> exp, next |-> Some(first[1])]
             ELSE PurgeLoop(MapRemove(ent, first[2]), exp \ {first}, t)

\* Time passes.
Tick ==
    /\ now < MaxTime
    /\ now' = now + 1
    /\ UNCHANGED <<entries, expirations, purgerPc, purgerWhen, cmdVars,
                   histVars, guardVars, outsideDb>>

\* purge_expired_tasks: `while !shared.is_shutdown()`
PurgerCheck ==
    /\ purgerPc = "check"
    /\ purgerPc' = IF shutdown THEN "exit" ELSE "purge"
    /\ UNCHANGED <<now, entries, expirations, purgerWhen, cmdVars,
                   histVars, guardVars, outsideDb>>

\* purge_expired_tasks: one call of purge_expired_keys; the task then sleeps
\* until the instant returned, or waits to be notified when there is none.
PurgerPurge ==
    /\ purgerPc = "purge"
    /\ IF shutdown
       THEN /\ purgerPc' = "wait"
            /\ purgerWhen' = None
            /\ UNCHANGED <<entries, expirations, cleared>>
       ELSE LET r == PurgeLoop(entries, expirations, now)
            IN  /\ entries' = r.entries
                /\ expirations' = r.expirations
                /\ purgerWhen' = r.next
                /\ purgerPc' = IF r.next = None THEN "wait" ELSE "sleep"
                /\ cleared' = [k \in DOMAIN cleared |->
                                  [cleared[k] EXCEPT !.passed = @ \/ now >= cleared[k].was]]
    /\ UNCHANGED <<now, cmdVars, lastSet, acked, moved, guardVars, outsideDb>>

\* purge_expired_tasks: sleep_until(when) elapses.
PurgerSleepDone ==
    /\ purgerPc = "sleep"
    /\ now >= purgerWhen[1]
    /\ purgerPc' = "check"
    /\ purgerWhen' = None
    /\ UNCHANGED <<now, entries, expirations, cmdVars, histVars, guardVars,
                   outsideDb>>

\* purge_expired_tasks: background_task.notified() completes, taking the permit.
PurgerNotified ==
    /\ purgerPc \in {"sleep", "wait"}
    /\ bgPermit
    /\ bgPermit' = FALSE
    /\ purgerPc' = "check"
    /\ purgerWhen' = None
    /\ UNCHANGED <<now, entries, expirations, cmdVars, histVars, guardPc,
                   shutdown, outsideDb>>

PurgerStep == PurgerCheck \/ PurgerPurge \/ PurgerSleepDone \/ PurgerNotified

\* The listener's DbDropGuard is dropped.
GuardSetFlag ==
    /\ ShutdownSetFlag
    /\ UNCHANGED <<dbVars, cmdVars, histVars, outsideDb>>

GuardNotify ==
    /\ ShutdownNotify
    /\ UNCHANGED <<dbVars, cmdVars, histVars, outsideDb>>

(***************************************************************************)
(* A handler applying SET and GET (Set::apply, Get::apply).                *)
(***************************************************************************)
\* What is left of a Set once Db::set has taken its value: the key and whether
\* it carried an expiration.
GetCmd(key) == [name |-> "get", key |-> key, value |-> "", expire |-> None, msg |-> None]

SetCmd(key, expire) ==
    [name |-> "set", key |-> key, value |-> "",
     expire |-> IF expire = None THEN None ELSE Some(0), msg |-> None]

\* Set::apply up to the release of the lock inside Db::set, on the program's
\* state and the record of the SETs made.
SetUnderLock(c, key, value, expire) ==
    /\ cPc[c] = "select"
    /\ DbSet(key, value, expire)
    /\ cCmd' = [cCmd EXCEPT ![c] = SetCmd(key, expire)]
    /\ cNotify' = [cNotify EXCEPT ![c] = SetNotifies(expire)]
    /\ cPc' = [cPc EXCEPT ![c] = "notify"]
    /\ lastSet' = [k \in DOMAIN lastSet \cup {key} |->
                      IF k = key THEN [data |-> value, expires_at |-> SetWhen(expire)]
                      ELSE lastSet[k]]
    /\ cleared' = IF expire # None THEN [k \in DOMAIN cleared \ {key} |-> cleared[k]]
                  ELSE IF key \in DOMAIN entries /\ entries[key].expires_at # None
                       THEN [k \in DOMAIN cleared \cup {key} |->
                               IF k = key THEN [was |-> entries[key].expires_at[1],
                                                passed |-> FALSE]
                               ELSE cleared[k]]
                       ELSE cleared
    /\ UNCHANGED <<now, purgerPc, purgerWhen, cResp, acked, guardVars,
                   outsideDb>>

\* Set::apply up to the release of the lock inside Db::set.
ApplySet(c, key, value, expire) ==
    /\ SetUnderLock(c, key, value, expire)
    /\ UNCHANGED moved

\* The same step, recording the expiration it replaces by another one.
ApplySetOver(c, key, value, expire) ==
    /\ SetUnderLock(c, key, value, expire)
    /\ moved' = IF /\ expire # None
                   /\ key \in DOMAIN entries
                   /\ entries[key].expires_at # None
                   /\ now < entries[key].expires_at[1]
                THEN [k \in DOMAIN moved \cup {key} |->
                        IF k = key THEN entries[key].expires_at[1] ELSE moved[k]]
                ELSE [k \in DOMAIN moved \ {key} |-> moved[k]]

\* Db::set after the lock: `if notify { notify_one() }`; Set::apply then builds
\* the response Simple("OK").
SetNotify(c) ==
    /\ cPc[c] = "notify"
    /\ IF cNotify[c] THEN NotifyOne ELSE UNCHANGED bgPermit
    /\ cNotify' = [cNotify EXCEPT ![c] = FALSE]
    /\ cResp' = [cResp EXCEPT ![c] = Simple("OK")]
    /\ cPc' = [cPc EXCEPT ![c] = "write"]
    /\ UNCHANGED <<dbVars, cCmd, histVars, guardPc, shutdown, outsideDb>>

\* Get::apply: Db::get and the response built from it.
GetResponse(key) == IF DbGet(key) = None THEN Null ELSE Bulk(DbGet(key)[1])

ApplyGet(c, key) ==
    /\ cPc[c] = "select"
    /\ cCmd' = [cCmd EXCEPT ![c] = GetCmd(key)]
    /\ cResp' = [cResp EXCEPT ![c] = GetResponse(key)]
    /\ cPc' = [cPc EXCEPT ![c] = "write"]
    /\ UNCHANGED <<dbVars, cNotify, histVars, guardVars, outsideDb>>

\* write_frame(&response) completes; the handler is back at its select.
WriteReply(c) ==
    /\ cPc[c] = "write"
    /\ cPc' = [cPc EXCEPT ![c] = "select"]
    /\ cCmd' = [cCmd EXCEPT ![c] = NoCmd]
    /\ cResp' = [cResp EXCEPT ![c] = NoFrame]
    /\ acked' = IF cCmd[c].name = "set" /\ cCmd[c].expire = None
                THEN acked \cup {cCmd[c].key} ELSE acked
    /\ UNCHANGED <<dbVars, cNotify, lastSet, cleared, moved, guardVars, outsideDb>>

Ttls == {None} \cup {Some(d) : d \in 0..MaxTtl}

\* One connection's step on the keys ks with the values vs.
ClientStep(c, ks, vs) ==
    \/ \E k \in ks, v \in vs, e \in Ttls : ApplySet(c, k, v, e)
    \/ SetNotify(c)
    \/ \E k \in ks : ApplyGet(c, k)
    \/ WriteReply(c)

\* One connection, every key, the purge task and the shutdown of the store.
NextDb ==
    \/ Tick
    \/ PurgerStep
    \/ GuardSetFlag
    \/ GuardNotify
    \/ ClientStep("c1", Keys, Values)

\* The same with one value.
NextDbLive ==
    \/ Tick
    \/ PurgerStep
    \/ GuardSetFlag
    \/ GuardNotify
    \/ ClientStep("c1", Keys, {"v1"})

\* One connection setting one key with expirations of up to MaxDelay, the
\* purge task and the shutdown of the store.
NextOverwrite ==
    \/ Tick
    \/ PurgerStep
    \/ GuardSetFlag
    \/ GuardNotify
    \/ \E v \in Values, d \in 0..MaxDelay : ApplySetOver("c1", "k1", v, Some(d))
    \/ SetNotify("c1")
    \/ ApplyGet("c1", "k1")
    \/ WriteReply("c1")

\* Every connection on one key, and the purge task.
NextVis ==
    \/ Tick
    \/ PurgerStep
    \/ \E c \in Clients : ClientStep(c, {"k1"}, Values)

(***************************************************************************)
(* One connection with pipelined requests: Connection::read_frame,         *)
(* Command::from_frame, Command::apply and Connection::write_frame as      *)
(* Handler::run sequences them.                                            *)
(***************************************************************************)
PipeInit ==
    /\ sent = <<>>
    /\ wire = <<>>
    /\ pipeClosed = FALSE
    /\ buffer = <<>>
    /\ pPc = "select"
    /\ pCmd = NoCmd
    /\ pResp = NoFrame
    /\ wbuf = <<>>
    /\ outq = <<>>
    /\ applied = 0

\* Parse::next_string / Parse::next_bytes succeed on a Simple or a Bulk frame.
IsText(frame) == frame.type \in {"Simple", "Bulk"}

ParseErr == [ok |-> FALSE, cmd |-> NoCmd]
ParseOk(cmd) == [ok |-> TRUE, cmd |-> cmd]

\* Parse::next_int: an Integer, or a Simple or Bulk that reads as a number.
NumeralValue(str) == CASE str = "0" -> 0 [] str = "1" -> 1 [] str = "2" -> 2 [] OTHER -> -1
NextInt(frame) ==
    IF frame.type = "Integer" THEN Some(frame.val)
    ELSE IF IsText(frame) /\ NumeralValue(frame.val) >= 0 THEN Some(NumeralValue(frame.val))
         ELSE None

\* Get::parse_frame followed by Parse::finish
GetParseFrame(items) ==
    IF Len(items) = 2 /\ IsText(items[2]) THEN ParseOk(GetCmd(items[2].val)) ELSE ParseErr

\* A parsed Set
SetOf(key, value, expire) ==
    [name |-> "set", key |-> key, value |-> value, expire |-> expire, msg |-> None]

\* Set::parse_frame followed by Parse::finish: a key, a value, and either the
\* end of the frame or a string followed by a number of milliseconds.
SetParseFrame(items) ==
    IF Len(items) >= 3 /\ IsText(items[2]) /\ IsText(items[3])
    THEN IF Len(items) = 3
         THEN ParseOk(SetOf(items[2].val, items[3].val, None))
         ELSE IF Len(items) = 5 /\ IsText(items[4]) /\ NextInt(items[5]) # None
              THEN ParseOk(SetOf(items[2].val, items[3].val, NextInt(items[5])))
              ELSE ParseErr
    ELSE ParseErr

\* A parsed Ping
PingOf(msg) == [name |-> "ping", key |-> "", value |-> "", expire |-> None, msg |-> msg]

\* Ping::parse_frames followed by Parse::finish
PingParseFrames(items) ==
    IF Len(items) = 1 THEN ParseOk(PingOf(None))
    ELSE IF Len(items) = 2 /\ IsText(items[2]) THEN ParseOk(PingOf(Some(items[2].val)))
         ELSE ParseErr

\* A parsed Subscribe and a parsed Publish
SubscribeOf(channels) ==
    [name |-> "subscribe", key |-> "", value |-> "", expire |-> None, msg |-> Some(channels)]
PublishOf(channel, message) ==
    [name |-> "publish", key |-> channel, value |-> message, expire |-> None, msg |-> None]

\* Subscribe::parse_frames followed by Parse::finish: one channel at least,
\* every element a string.
SubscribeParseFrames(items) ==
    IF Len(items) >= 2 /\ \A i \in 2..Len(items) : IsText(items[i])
    THEN ParseOk(SubscribeOf([i \in 1..(Len(items) - 1) |-> items[i + 1].val]))
    ELSE ParseErr

\* Publish::parse_frames followed by Parse::finish
PublishParseFrames(items) ==
    IF Len(items) = 3 /\ IsText(items[2]) /\ IsText(items[3])
    THEN ParseOk(PublishOf(items[2].val, items[3].val))
    ELSE ParseErr

\* A parsed Unknown: Unknown::new(command_name)
UnknownOf(command_name) ==
    [name |-> "unknown", key |-> command_name, value |-> "", expire |-> None, msg |-> None]

\* str::to_lowercase, on the command names a client of the model writes
ToLowercaseSame(str) == str
ToLowercase(str) ==
    CASE str = "PING" -> "ping"
      [] str = "FOO" -> "foo"
      [] OTHER -> str

\* Command::from_frame
FromFrame(frame) ==
    IF frame.type # "Array" THEN ParseErr
    ELSE LET items == frame.val
         IN  IF Len(items) = 0 \/ ~IsText(items[1]) THEN ParseErr
             ELSE LET command_name == ToLowercase(items[1].val)
                  IN  CASE command_name = "get" -> GetParseFrame(items)
                        [] command_name = "set" -> SetParseFrame(items)
                        [] command_name = "publish" -> PublishParseFrames(items)
                        [] command_name = "subscribe" -> SubscribeParseFrames(items)
                        [] command_name = "ping" -> PingParseFrames(items)
                        [] OTHER -> ParseOk(UnknownOf(command_name))

\* Ping::apply: the response
PingResponse(cmd) == IF cmd.msg = None THEN Simple("PONG") ELSE Bulk(cmd.msg[1])

\* Unknown::apply: the response, an Error that quotes the command name
UnknownResponse(cmd) == Error(cmd.key)

\* Connection::parse_frame: the frame at the front of the buffer, and the
\* buffer advanced past it.
ParseLast(buf) == buf[Len(buf)]
ParseFrame(buf) == Head(buf)
BufferAdvance(buf) == Tail(buf)

\* The client writes one more request.
ClientSend(req) ==
    /\ ~pipeClosed
    /\ Len(sent) < MaxReqs
    /\ sent' = Append(sent, req)
    /\ wire' = Append(wire, req)
    /\ UNCHANGED <<pipeClosed, buffer, pPc, pCmd, pResp, wbuf, outq, applied, entries,
                   expirations, bgPermit, outsidePipe>>

\* The client closes its side.
ClientClose ==
    /\ ~pipeClosed
    /\ pipeClosed' = TRUE
    /\ UNCHANGED <<sent, wire, buffer, pPc, pCmd, pResp, wbuf, outq, applied, entries,
                   expirations, bgPermit, outsidePipe>>

\* read_frame: the buffer holds no frame, read_buf takes n frames off the socket.
PipeReadBuf(n) ==
    /\ pPc = "select"
    /\ buffer = <<>>
    /\ n \in 1..Len(wire)
    /\ buffer' = SubSeq(wire, 1, n)
    /\ wire' = SubSeq(wire, n + 1, Len(wire))
    /\ UNCHANGED <<sent, pipeClosed, pPc, pCmd, pResp, wbuf, outq, applied, entries,
                   expirations, bgPermit, outsidePipe>>

\* read_frame: read_buf returns 0 and the buffer is empty -> Ok(None); run returns.
PipeEof ==
    /\ pPc = "select"
    /\ buffer = <<>>
    /\ wire = <<>>
    /\ pipeClosed
    /\ pPc' = "done"
    /\ UNCHANGED <<sent, wire, pipeClosed, buffer, pCmd, pResp, wbuf, outq, applied,
                   entries, expirations, bgPermit, outsidePipe>>

\* The shutdown branch of the select wins; run returns.
PipeShutdown ==
    /\ pPc = "select"
    /\ pPc' = "done"
    /\ UNCHANGED <<sent, wire, pipeClosed, buffer, pCmd, pResp, wbuf, outq, applied,
                   entries, expirations, bgPermit, outsidePipe>>

\* read_frame returns the next buffered frame and Command::from_frame parses
\* it; an Err is returned from run by `?`.
PipeParse ==
    /\ pPc = "select"
    /\ buffer # <<>>
    /\ LET parsed == FromFrame(ParseFrame(buffer))
       IN  /\ pCmd' = parsed.cmd
           /\ pPc' = IF parsed.ok THEN "apply" ELSE "done"
    /\ buffer' = BufferAdvance(buffer)
    /\ UNCHANGED <<sent, wire, pipeClosed, pResp, wbuf, outq, applied, entries,
                   expirations, bgPermit, outsidePipe>>

\* Command::apply up to the response it builds.  The client of this
\* connection writes no PUBLISH or SUBSCRIBE that parses: those are applied
\* in the models of the channels.
PipeApply ==
    /\ pPc = "apply"
    /\ CASE pCmd.name = "set" ->
              /\ DbSet(pCmd.key, pCmd.value, pCmd.expire)
              /\ IF SetNotifies(pCmd.expire) THEN NotifyOne ELSE UNCHANGED bgPermit
              /\ pResp' = Simple("OK")
         [] pCmd.name = "get" ->
              /\ pResp' = GetResponse(pCmd.key)
              /\ UNCHANGED <<entries, expirations, bgPermit>>
         [] pCmd.name = "ping" ->
              /\ pResp' = PingResponse(pCmd)
              /\ UNCHANGED <<entries, expirations, bgPermit>>
         [] pCmd.name = "unknown" ->
              /\ pResp' = UnknownResponse(pCmd)
              /\ UNCHANGED <<entries, expirations, bgPermit>>
    /\ applied' = applied + 1
    /\ pCmd' = NoCmd
    /\ pPc' = "write"
    /\ UNCHANGED <<sent, wire, pipeClosed, buffer, wbuf, outq, outsidePipe>>

\* write_frame: write_value puts the response in the BufWriter.
PipeWrite ==
    /\ pPc = "write"
    /\ wbuf' = Append(wbuf, pResp)
    /\ pResp' = NoFrame
    /\ pPc' = "flush"
    /\ UNCHANGED <<sent, wire, pipeClosed, buffer, pCmd, outq, applied, entries,
                   expirations, bgPermit, outsidePipe>>

\* write_frame: flush() completes; apply returns and run loops.
PipeFlush ==
    /\ pPc = "flush"
    /\ outq' = outq \o wbuf
    /\ wbuf' = <<>>
    /\ pPc' = "select"
    /\ UNCHANGED <<sent, wire, pipeClosed, buffer, pCmd, pResp, applied, entries,
                   expirations, bgPermit, outsidePipe>>

\* write_frame fails; the Err is returned from run by `?`.
PipeWriteErr ==
    /\ pPc \in {"write", "flush"}
    /\ pPc' = "done"
    /\ UNCHANGED <<sent, wire, pipeClosed, buffer, pCmd, pResp, wbuf, outq, applied,
                   entries, expirations, bgPermit, outsidePipe>>

NextPipe ==
    \/ \E req \in Requests : ClientSend(req)
    \/ ClientClose
    \/ \E n \in 1..MaxReqs : PipeReadBuf(n)
    \/ PipeEof
    \/ PipeShutdown
    \/ PipeParse
    \/ PipeApply
    \/ PipeWrite
    \/ PipeFlush
    \/ PipeWriteErr

(***************************************************************************)
(* Channels: Db::subscribe, Db::publish and the sessions of                *)
(* Subscribe::apply.  A broadcast Sender is modelled by its count of live  *)
(* Receivers, which is what Sender::send reports.                          *)
(***************************************************************************)
\* A Receiver fresh from subscribe: nothing to read, nothing missed.
NoRx == [q |-> <<>>, lagged |-> FALSE]

PubSubInit ==
    /\ pubSub = <<>>
    /\ sPc = [s \in Sessions |-> "idle"]
    /\ sTodo = [s \in Sessions |-> <<>>]
    /\ sLocal = [s \in Sessions |-> None]
    /\ sStreams = [s \in Sessions |-> {}]
    /\ pubResp = NoFrame
    /\ lastPub = None
    /\ npub = 0
    /\ sRx = [s \in Sessions |-> <<>>]
    /\ sRxLocal = [s \in Sessions |-> NoRx]
    /\ sMsg = [s \in Sessions |-> NoFrame]
    /\ sOut = [s \in Sessions |-> <<>>]
    /\ sIn = [s \in Sessions |-> <<>>]
    /\ sLagged = [s \in Sessions |-> FALSE]
    /\ sResult = [s \in Sessions |-> "none"]
    /\ sReq = [s \in Sessions |-> <<>>]
    /\ sDue = [s \in Sessions |-> {}]
    /\ sLastRead = [s \in Sessions |-> NoFrame]
    /\ pubLog = <<>>
    /\ sBorn = [s \in Sessions |-> [rx |-> 0, map |-> <<>>]]

\* The channel lists of a SUBSCRIBE: one to MaxChans names, repeats allowed.
ChannelLists == UNION {[1..n -> Channels] : n \in 1..MaxChans}

\* The payload of the i-th value sent that a Receiver was there for.
Payload(i) == <<"m1", "m2", "m3", "m4", "m5">>[i]

\* Frames a subscribed client writes.
SessionFrames == {Simple("shutdown"), Bulk("shutdown"), Request(<<"ping">>)}

\* make_subscribe_frame and make_message_frame
MakeSubscribeFrameBefore(ch, num) == Array(<<Bulk("subscribe"), Bulk(ch), Integer(num - 1)>>)
MakeSubscribeFrame(ch, num) == Array(<<Bulk("subscribe"), Bulk(ch), Integer(num)>>)
MakeMessageFrame(ch, m) == Array(<<Bulk("message"), Bulk(ch), Bulk(m)>>)

\* broadcast::Sender::subscribe and broadcast::channel: one more Receiver.
RxUncounted(map, ch) == IF ch \in DOMAIN map THEN map ELSE MapInsert(map, ch, 0)
RxSubscribe(map, ch) ==
    IF ch \in DOMAIN map THEN [map EXCEPT ![ch] = @ + 1] ELSE MapInsert(map, ch, 1)

\* A broadcast::Receiver is dropped.
RxDrop(map, ch) == [map EXCEPT ![ch] = @ - 1]

\* broadcast::Sender::send: Err when there is no Receiver, else their count.
SendResult(cnt) == IF cnt = 0 THEN None ELSE Some(cnt)

\* broadcast::Sender::send as one Receiver sees it: the channel retains the
\* last Capacity values; a Receiver further behind has missed the oldest.
RxPush(rx, m) ==
    IF Len(rx.q) < Capacity
    THEN [q |-> Append(rx.q, m), lagged |-> rx.lagged]
    ELSE [q |-> Append(Tail(rx.q), m), lagged |-> TRUE]

\* The stream of subscribe_to_channel on RecvError::Lagged: `=> {}`, the loop
\* goes on with the oldest value retained.
RxLaggedBreak(rx) == [q |-> <<>>, lagged |-> TRUE]
RxLaggedSkip(rx) == [q |-> rx.q, lagged |-> FALSE]

\* Db::publish: `.map(|tx| tx.send(value).unwrap_or(0)).unwrap_or(0)`
DbPublish(ch) ==
    IF ch \in DOMAIN pubSub
    THEN IF SendResult(pubSub[ch]) = None THEN 0 ELSE SendResult(pubSub[ch])[1]
    ELSE 0

\* Subscribe::apply starts with the channels of the command.
SubscribeApply(s, chs) ==
    /\ sPc[s] = "idle"
    /\ sTodo' = [sTodo EXCEPT ![s] = chs]
    /\ sPc' = [sPc EXCEPT ![s] = "subscribe"]
    /\ sReq' = [sReq EXCEPT ![s] = chs]
    /\ UNCHANGED <<pubSub, sLocal, sStreams, pubResp, lastPub, npub, sRx, sRxLocal,
                   sMsg, sOut, sIn, sLagged, sResult, sDue, sLastRead, outsidePubSub>>

\* subscribe_to_channel: `let mut rx = db.subscribe(channel_name.clone())`
SubscribeRx(s) ==
    /\ sPc[s] = "subscribe"
    /\ sTodo[s] # <<>>
    /\ pubSub' = RxSubscribe(pubSub, Head(sTodo[s]))
    /\ sLocal' = [sLocal EXCEPT ![s] = Some(Head(sTodo[s]))]
    /\ sRxLocal' = [sRxLocal EXCEPT ![s] = NoRx]
    /\ sTodo' = [sTodo EXCEPT ![s] = Tail(@)]
    /\ sPc' = [sPc EXCEPT ![s] = "insert"]
    /\ UNCHANGED <<sStreams, pubResp, lastPub, npub, sRx, sMsg, sOut, sIn, sLagged,
                   sResult, sReq, sDue, sLastRead, outsideChannels>>

DbSubscribe(s) == SubscribeRx(s) /\ UNCHANGED orderVars

\* The same step, recording how many values had been sent.
DbSubscribeAt(s) ==
    /\ SubscribeRx(s)
    /\ sBorn' = [sBorn EXCEPT ![s].rx = npub]
    /\ UNCHANGED pubLog

\* subscribe_to_channel: `subscriptions.insert(channel_name.clone(), rx)`; the
\* stream the map held under the same name is returned and dropped. Then
\* `let response = make_subscribe_frame(channel_name, subscriptions.len())`.
InsertRx(s) ==
    /\ sPc[s] = "insert"
    /\ LET ch == sLocal[s][1]
       IN  /\ pubSub' = IF ch \in sStreams[s] THEN RxDrop(pubSub, ch) ELSE pubSub
           /\ sStreams' = [sStreams EXCEPT ![s] = @ \cup {ch}]
           /\ sRx' = [sRx EXCEPT ![s] = [c \in sStreams[s] \cup {ch} |->
                                            IF c = ch THEN sRxLocal[s] ELSE sRx[s][c]]]
           /\ sMsg' = [sMsg EXCEPT
                         ![s] = MakeSubscribeFrame(ch, Cardinality(sStreams[s] \cup {ch}))]
    /\ sLocal' = [sLocal EXCEPT ![s] = None]
    /\ sRxLocal' = [sRxLocal EXCEPT ![s] = NoRx]
    /\ sPc' = [sPc EXCEPT ![s] = "ack"]
    /\ UNCHANGED <<sTodo, pubResp, lastPub, npub, sOut, sIn, sLagged, sResult,
                   sReq, sDue, sLastRead, outsideChannels>>

StreamInsert(s) == InsertRx(s) /\ UNCHANGED orderVars

\* The same step, recording which Receiver the StreamMap holds from now on.
StreamInsertAt(s) ==
    /\ InsertRx(s)
    /\ sBorn' = [sBorn EXCEPT ![s].map =
                    [c \in DOMAIN @ \cup {sLocal[s][1]} |->
                        IF c = sLocal[s][1] THEN sBorn[s].rx ELSE @[c]]]
    /\ UNCHANGED pubLog

\* subscribe_to_channel: write_frame(&response) completes; the for loop goes
\* on, and after the last channel the session is in its select loop.
SubscribeAck(s) ==
    /\ sPc[s] = "ack"
    /\ sOut' = [sOut EXCEPT ![s] = Append(@, sMsg[s])]
    /\ sMsg' = [sMsg EXCEPT ![s] = NoFrame]
    /\ sPc' = [sPc EXCEPT ![s] = IF sTodo[s] = <<>> THEN "loop" ELSE "subscribe"]
    /\ UNCHANGED <<pubSub, sTodo, sLocal, sStreams, pubResp, lastPub, npub, sRx,
                   sRxLocal, sIn, sLagged, sResult, sReq, sDue, sLastRead, outsidePubSub>>

\* Subscribe::apply returns res; `subscriptions` goes out of scope.
ApplyReturns(s, res) ==
    /\ sTodo' = [sTodo EXCEPT ![s] = <<>>]
    /\ sPc' = [sPc EXCEPT ![s] = IF sStreams[s] = {} THEN "idle" ELSE "drop"]
    /\ sResult' = [sResult EXCEPT ![s] = res]
    /\ sMsg' = [sMsg EXCEPT ![s] = NoFrame]
    /\ sDue' = [sDue EXCEPT ![s] = {}]
    /\ UNCHANGED <<pubSub, sLocal, sStreams, pubResp, lastPub, npub, sRx, sRxLocal,
                   sOut, sLagged, sReq, outsidePubSub>>

\* Subscribe::apply returns for a reason outside the session: write_frame
\* failed (Err), or in the select loop the client closed (Ok) or read_frame
\* failed (Err), or the server is shutting down (Ok).
SubscribeReturn(s) ==
    /\ sPc[s] \in {"ack", "loop", "write"}
    /\ \E res \in {"ok", "err"} :
          /\ res = "ok" => sPc[s] = "loop"
          /\ ApplyReturns(s, res)
    /\ UNCHANGED <<sIn, sLastRead>>

\* The StreamMap is dropped, one stream and its Receiver after the other. With
\* the last one the session is over: its history starts afresh, and the frames
\* the client wrote and the session did not read are Handler::run's.
StreamDrop(s, ch) ==
    /\ sPc[s] = "drop"
    /\ ch \in sStreams[s]
    /\ pubSub' = RxDrop(pubSub, ch)
    /\ sStreams' = [sStreams EXCEPT ![s] = @ \ {ch}]
    /\ sRx' = [sRx EXCEPT ![s] = [c \in sStreams[s] \ {ch} |-> sRx[s][c]]]
    /\ sPc' = [sPc EXCEPT ![s] = IF sStreams[s] = {ch} THEN "idle" ELSE "drop"]
    /\ sOut' = [sOut EXCEPT ![s] = IF sStreams[s] = {ch} THEN <<>> ELSE @]
    /\ sLagged' = [sLagged EXCEPT ![s] = IF sStreams[s] = {ch} THEN FALSE ELSE @]
    /\ sResult' = [sResult EXCEPT ![s] = IF sStreams[s] = {ch} THEN "none" ELSE @]
    /\ sReq' = [sReq EXCEPT ![s] = IF sStreams[s] = {ch} THEN <<>> ELSE @]
    /\ sIn' = [sIn EXCEPT ![s] = IF sStreams[s] = {ch} THEN <<>> ELSE @]
    /\ sLastRead' = [sLastRead EXCEPT ![s] = IF sStreams[s] = {ch} THEN NoFrame ELSE @]
    /\ UNCHANGED <<sTodo, sLocal, pubResp, lastPub, npub, sRxLocal, sMsg, sDue,
                   outsidePubSub>>

\* Sessions holding a Receiver for ch, in the StreamMap or in `rx`.
Holding(ch) == {s \in Sessions : ch \in sStreams[s] \/ sLocal[s] = Some(ch)}

\* Sessions holding two: the stream in the StreamMap and the `rx` about to
\* replace it.
HoldingTwo(ch) == {s \in Sessions : ch \in sStreams[s] /\ sLocal[s] = Some(ch)}

\* Receivers for ch that are alive.
LiveReceivers(ch) ==
    Cardinality({s \in Sessions : ch \in sStreams[s]})
        + Cardinality({s \in Sessions : sLocal[s] = Some(ch)})

\* Publish::apply: db.publish and the Integer response; the value sent
\* reaches every Receiver of the channel that is alive.
PublishSend(ch) ==
    /\ DbPublish(ch) = 0 \/ npub < MaxPubs
    /\ npub' = IF DbPublish(ch) = 0 THEN npub ELSE npub + 1
    /\ pubResp' = Integer(DbPublish(ch))
    /\ lastPub' = Some([ch |-> ch, n |-> DbPublish(ch), known |-> ch \in DOMAIN pubSub,
                        receivers |-> LiveReceivers(ch),
                        sessions |-> Cardinality(Holding(ch)),
                        twice |-> Cardinality(HoldingTwo(ch))])
    /\ sRx' = [s \in Sessions |-> [c \in sStreams[s] |->
                  IF c = ch THEN RxPush(sRx[s][c], Payload(npub + 1)) ELSE sRx[s][c]]]
    /\ sRxLocal' = [s \in Sessions |->
                      IF sLocal[s] = Some(ch) THEN RxPush(sRxLocal[s], Payload(npub + 1))
                      ELSE sRxLocal[s]]
    /\ sDue' = [s \in Sessions |->
                  IF ch \in sStreams[s] /\ sPc[s] # "drop"
                  THEN sDue[s] \cup {<<ch, Payload(npub + 1)>>} ELSE sDue[s]]
    /\ UNCHANGED <<pubSub, sPc, sTodo, sLocal, sStreams, sMsg, sOut, sIn, sLagged,
                   sResult, sReq, sLastRead, outsideChannels>>

Publish(ch) == PublishSend(ch) /\ UNCHANGED orderVars

\* The same step, recording the channel of the value sent.
PublishLogged(ch) ==
    /\ PublishSend(ch)
    /\ pubLog' = IF DbPublish(ch) = 0 THEN pubLog ELSE Append(pubLog, ch)
    /\ UNCHANGED sBorn

\* A stream that yields the value it holds first and keeps it.
SessionMessageAgain(s, ch) ==
    /\ sPc[s] = "loop"
    /\ ch \in sStreams[s]
    /\ sRx[s][ch].q # <<>>
    /\ sMsg' = [sMsg EXCEPT ![s] = MakeMessageFrame(ch, Head(sRx[s][ch].q))]
    /\ sPc' = [sPc EXCEPT ![s] = "write"]
    /\ UNCHANGED <<pubSub, sTodo, sLocal, sStreams, pubResp, lastPub, npub, sRx,
                   sRxLocal, sOut, sIn, sLagged, sResult, sReq, sDue, sLastRead,
                   outsidePubSub>>

\* The session's select, first branch: a stream of `subscriptions` yields.
\* The stream swallows RecvError::Lagged and yields the next value received.
SessionMessage(s, ch) ==
    /\ sPc[s] = "loop"
    /\ ch \in sStreams[s]
    /\ LET rx == IF sRx[s][ch].lagged THEN RxLaggedSkip(sRx[s][ch]) ELSE sRx[s][ch]
       IN  /\ rx.q # <<>>
           /\ sRx' = [sRx EXCEPT ![s][ch] = [q |-> Tail(rx.q), lagged |-> rx.lagged]]
           /\ sMsg' = [sMsg EXCEPT ![s] = MakeMessageFrame(ch, Head(rx.q))]
    /\ sLagged' = [sLagged EXCEPT ![s] = @ \/ sRx[s][ch].lagged]
    /\ sPc' = [sPc EXCEPT ![s] = "write"]
    /\ UNCHANGED <<pubSub, sTodo, sLocal, sStreams, pubResp, lastPub, npub, sRxLocal,
                   sOut, sIn, sResult, sReq, sDue, sLastRead, outsidePubSub>>

\* ... and `dst.write_frame(&make_message_frame(channel_name, msg))` completes.
SessionWrite(s) ==
    /\ sPc[s] = "write"
    /\ sOut' = [sOut EXCEPT ![s] = Append(@, sMsg[s])]
    /\ sMsg' = [sMsg EXCEPT ![s] = NoFrame]
    /\ sPc' = [sPc EXCEPT ![s] = "loop"]
    /\ UNCHANGED <<pubSub, sTodo, sLocal, sStreams, pubResp, lastPub, npub, sRx,
                   sRxLocal, sIn, sLagged, sResult, sReq, sDue, sLastRead, outsidePubSub>>

\* The client of a session writes a frame.
ClientWrite(s, f) ==
    /\ sPc[s] \in {"subscribe", "insert", "ack", "loop", "write"}
    /\ Len(sIn[s]) < MaxPending
    /\ sIn' = [sIn EXCEPT ![s] = Append(@, f)]
    /\ UNCHANGED <<pubVars, npub, sRx, sRxLocal, sMsg, sOut, sLagged, sResult,
                   sReq, sDue, sLastRead, outsidePubSub>>

\* The frame that ends a session: `Frame::Simple(str) if str == "shutdown"`.
IsShutdownText(f) == f.type \in {"Simple", "Bulk"} /\ f.val = "shutdown"
IsShutdownFrame(f) == f.type = "Simple" /\ f.val = "shutdown"

\* The session's select, second branch: read_frame yields a frame. On
\* Frame::Simple("shutdown") apply returns Ok; `_ => {}` for any other frame.
SessionReadFrame(s) ==
    /\ sPc[s] = "loop"
    /\ sIn[s] # <<>>
    /\ sIn' = [sIn EXCEPT ![s] = Tail(@)]
    /\ sLastRead' = [sLastRead EXCEPT ![s] = Head(sIn[s])]
    /\ IF IsShutdownFrame(Head(sIn[s]))
       THEN ApplyReturns(s, "ok")
       ELSE UNCHANGED <<pubVars, npub, sRx, sRxLocal, sMsg, sOut, sLagged, sResult,
                        sReq, sDue, outsidePubSub>>

\* One connection in and out of subscribe sessions, its client, and the
\* publishers on other connections.
NextSession ==
    \/ \E chs \in ChannelLists : SubscribeApply("s1", chs)
    \/ DbSubscribe("s1")
    \/ StreamInsert("s1")
    \/ SubscribeAck("s1")
    \/ SubscribeReturn("s1")
    \/ \E ch \in Channels : StreamDrop("s1", ch)
    \/ \E ch \in Channels : SessionMessage("s1", ch)
    \/ SessionWrite("s1")
    \/ \E f \in SessionFrames : ClientWrite("s1", f)
    \/ SessionReadFrame("s1")
    \/ \E ch \in Channels : Publish(ch)

\* The same, recording the order of the values sent and of the Receivers
\* created.
NextOrder ==
    \/ \E chs \in ChannelLists : SubscribeApply("s1", chs)
    \/ DbSubscribeAt("s1")
    \/ StreamInsertAt("s1")
    \/ SubscribeAck("s1")
    \/ SubscribeReturn("s1")
    \/ \E ch \in Channels : StreamDrop("s1", ch)
    \/ \E ch \in Channels : SessionMessage("s1", ch)
    \/ SessionWrite("s1")
    \/ \E f \in SessionFrames : ClientWrite("s1", f)
    \/ SessionReadFrame("s1")
    \/ \E ch \in Channels : PublishLogged(ch)

NextPubSub ==
    \/ \E s \in Sessions, chs \in ChannelLists : SubscribeApply(s, chs)
    \/ \E s \in Sessions : DbSubscribe(s)
    \/ \E s \in Sessions : StreamInsert(s)
    \/ \E s \in Sessions : SubscribeAck(s)
    \/ \E s \in Sessions : SubscribeReturn(s)
    \/ \E s \in Sessions, ch \in Channels : StreamDrop(s, ch)
    \/ \E ch \in Channels : Publish(ch)

(***************************************************************************)
(* server::run, Listener and Handler.                                      *)
(***************************************************************************)
SrvInit ==
    /\ runPc = "select"
    /\ sigint = FALSE
    /\ lPc = "acquire"
    /\ backoff = 1
    /\ permits = MAX_CONNECTION
    /\ permitHeld = {}
    /\ notifyAlive = TRUE
    /\ txHolders = {Listener}
    /\ spawned = 0
    /\ hPc = [c \in Conns |-> "none"]
    /\ isShutdown = [c \in Conns |-> FALSE]
    /\ peerClosed = [c \in Conns |-> FALSE]
    /\ hResult = [c \in Conns |-> "none"]
    /\ sessAtDrop = {}
    /\ failures = 0
    /\ slept = <<>>
    /\ hungUp = [c \in Conns |-> "no"]
    /\ resumed = {}

\* Handler tasks that were spawned and whose task has not ended.
Unfinished == {c \in Conns : hPc[c] \notin {"none", "done"}}
\* Handler tasks that are still inside Handler::run.
InHandlerRun == {c \in Conns : hPc[c] \in {"select", "apply", "acks", "session"}}

\* The signal future (ctrl_c) resolves.
Sigint ==
    /\ runPc = "select"
    /\ ~sigint
    /\ sigint' = TRUE
    /\ UNCHANGED <<runPc, lPc, backoff, permits, permitHeld, notifyAlive, txHolders,
                   spawned, hPc, isShutdown, peerClosed, hResult, failures, slept,
                   sessAtDrop, guardVars, restVars>>

\* Semaphore::acquire_owned completes only when a permit is available.
PermitAlways == TRUE
PermitAvailable == permits > 0

\* Listener::accept: `let mut backoff = 1`, new on every call.
AcceptStartStale == backoff
AcceptStart == 1

\* Listener::accept: `backoff *= 2`
NextBackoffLinear(b) == b + 1
NextBackoff(b) == b * 2

\* Listener::run: limit_connection.acquire_owned().await, then the call of
\* Listener::accept.
ListenerAcquire ==
    /\ runPc = "select"
    /\ lPc = "acquire"
    /\ PermitAvailable
    /\ permits' = permits - 1
    /\ permitHeld' = permitHeld \cup {Listener}
    /\ lPc' = "accept"
    /\ backoff' = AcceptStart
    /\ UNCHANGED <<runPc, sigint, notifyAlive, txHolders, spawned, hPc, isShutdown,
                   peerClosed, hResult, failures, slept, sessAtDrop, guardVars,
                   restVars>>

\* The Handler built by Listener::run: it subscribes to notify_shutdown, clones
\* shutdown_complete_tx, and is spawned with the permit moved into its task.
SpawnHandler(c) ==
    /\ hPc' = [hPc EXCEPT ![c] = "select"]
    /\ permitHeld' = (permitHeld \ {Listener}) \cup {c}
    /\ txHolders' = txHolders \cup {c}
    /\ spawned' = c

\* An accept loop that runs on its own, whatever becomes of server::run.
ListenerAcceptOkDetached ==
    /\ lPc \in {"accept", "cancelled"}
    /\ spawned < MaxConns
    /\ SpawnHandler(spawned + 1)
    /\ lPc' = IF lPc = "accept" THEN "acquire" ELSE lPc
    /\ failures' = 0
    /\ slept' = <<>>
    /\ UNCHANGED <<runPc, sigint, backoff, permits, notifyAlive, isShutdown, peerClosed,
                   hResult, sessAtDrop, guardVars, restVars>>

\* Listener::accept returns a socket; the handler is built and spawned without
\* a suspension point in between, and the loop returns to acquire_owned.
ListenerAcceptOk ==
    /\ runPc = "select"
    /\ lPc = "accept"
    /\ spawned < MaxConns
    /\ SpawnHandler(spawned + 1)
    /\ lPc' = "acquire"
    /\ failures' = 0
    /\ slept' = <<>>
    /\ UNCHANGED <<runPc, sigint, backoff, permits, notifyAlive, isShutdown, peerClosed,
                   hResult, sessAtDrop, guardVars, restVars>>

\* Listener::accept: the accept fails and backoff <= 64: sleep(backoff).
ListenerAcceptRetry ==
    /\ runPc = "select"
    /\ lPc = "accept"
    /\ ~(backoff > BackoffLimit)
    /\ lPc' = "sleep"
    /\ failures' = failures + 1
    /\ slept' = Append(slept, backoff)
    /\ UNCHANGED <<runPc, sigint, backoff, permits, permitHeld, notifyAlive, txHolders,
                   spawned, hPc, isShutdown, peerClosed, hResult, sessAtDrop, guardVars,
                   restVars>>

\* Listener::accept: the sleep ends; backoff *= 2 and the accept is retried.
ListenerSleepDone ==
    /\ runPc = "select"
    /\ lPc = "sleep"
    /\ backoff' = NextBackoff(backoff)
    /\ lPc' = "accept"
    /\ UNCHANGED <<runPc, sigint, permits, permitHeld, notifyAlive, txHolders, spawned,
                   hPc, isShutdown, peerClosed, hResult, failures, slept, sessAtDrop,
                   guardVars, restVars>>

\* Leaving the select with the accept loop's permit forgotten, not released.
LeaveSelectLeaks(how) ==
    /\ lPc' = how
    /\ permitHeld' = permitHeld \ {Listener}
    /\ permits' = permits
    /\ runPc' = "drop_notify"

\* Leaving the select of server::run drops the future of Listener::run and with
\* it the permit the accept loop holds, if any.
LeaveSelect(how) ==
    /\ lPc' = how
    /\ permitHeld' = permitHeld \ {Listener}
    /\ permits' = IF Listener \in permitHeld THEN permits + 1 ELSE permits
    /\ runPc' = "drop_notify"

\* A server::run that returns as soon as Listener::run has failed.
ListenerAcceptFatalReturns ==
    /\ runPc = "select"
    /\ lPc = "accept"
    /\ backoff > BackoffLimit
    /\ lPc' = "failed"
    /\ permitHeld' = permitHeld \ {Listener}
    /\ permits' = IF Listener \in permitHeld THEN permits + 1 ELSE permits
    /\ runPc' = "drop_guard"
    /\ failures' = failures + 1
    /\ UNCHANGED slept
    /\ UNCHANGED <<sigint, backoff, notifyAlive, txHolders, spawned, hPc, isShutdown,
                   peerClosed, hResult, sessAtDrop, guardVars, restVars>>

\* Listener::accept: the accept fails with backoff > 64: Listener::run returns
\* Err and the first branch of the select in server::run completes.
ListenerAcceptFatal ==
    /\ runPc = "select"
    /\ lPc = "accept"
    /\ backoff > BackoffLimit
    /\ LeaveSelect("failed")
    /\ failures' = failures + 1
    /\ UNCHANGED slept
    /\ UNCHANGED <<sigint, backoff, notifyAlive, txHolders, spawned, hPc, isShutdown,
                   peerClosed, hResult, sessAtDrop, guardVars, restVars>>

\* server::run: the shutdown branch of the select completes.
RunShutdownBranch ==
    /\ runPc = "select"
    /\ sigint
    /\ LeaveSelect("cancelled")
    /\ UNCHANGED <<sigint, backoff, notifyAlive, txHolders, spawned, hPc, isShutdown,
                   peerClosed, hResult, failures, slept, sessAtDrop, guardVars,
                   restVars>>

\* server::run: drop(notify_shutdown)
RunDropNotify ==
    /\ runPc = "drop_notify"
    /\ notifyAlive' = FALSE
    /\ runPc' = "drop_tx"
    /\ sessAtDrop' = {c \in Conns : hPc[c] = "session"}
    /\ UNCHANGED <<sigint, lPc, backoff, permits, permitHeld, txHolders, spawned, hPc,
                   isShutdown, peerClosed, hResult, failures, slept, guardVars,
                   restVars>>

\* server::run: drop(shutdown_complete_tx)
RunDropTx ==
    /\ runPc = "drop_tx"
    /\ txHolders' = txHolders \ {Listener}
    /\ runPc' = "recv"
    /\ UNCHANGED <<sigint, lPc, backoff, permits, permitHeld, notifyAlive, spawned, hPc,
                   isShutdown, peerClosed, hResult, failures, slept, sessAtDrop,
                   guardVars, restVars>>

\* mpsc::Receiver::recv yields None once every sender has been dropped
\* (no handler ever sends a value).
RecvReadyOwnOnly == Listener \notin txHolders
RecvReady == txHolders = {}

\* server::run: shutdown_complete_rx.recv().await completes.
RunRecv ==
    /\ runPc = "recv"
    /\ RecvReady
    /\ runPc' = "drop_guard"
    /\ UNCHANGED <<sigint, lPc, backoff, permits, permitHeld, notifyAlive, txHolders,
                   spawned, hPc, isShutdown, peerClosed, hResult, failures, slept,
                   sessAtDrop, guardVars, restVars>>

\* Where server::run drops what is left of `server`, DbDropGuard included:
\* at the end of its body, after recv().await.
GuardDropEarly == runPc \in {"recv", "drop_guard"}
GuardDropPoint == runPc = "drop_guard"

\* server::run ends: DbDropGuard::drop sets the store's shutdown flag ...
RunDropGuardFlag ==
    /\ GuardDropPoint
    /\ ShutdownSetFlag
    /\ UNCHANGED <<srvVars, restVars>>

\* ... and signals the purge task; server::run returns.
RunDropGuardNotify ==
    /\ GuardDropPoint
    /\ ShutdownNotify
    /\ runPc' = "returned"
    /\ UNCHANGED <<sigint, lPc, backoff, permits, permitHeld, notifyAlive, txHolders,
                   spawned, hPc, isShutdown, peerClosed, hResult, failures, slept,
                   sessAtDrop, restVars>>

\* Shutdown::recv completes: already shut down, or the broadcast sender is gone.
ShutdownRecvDeaf(c) == isShutdown[c]
ShutdownRecvReady(c) == isShutdown[c] \/ ~notifyAlive

\* Handler::run returns.
HandlerReturn(c, res) ==
    /\ hPc' = [hPc EXCEPT ![c] = "returned"]
    /\ hResult' = [hResult EXCEPT ![c] = res]

\* Handler::run: the loop condition `while !self.shutdown.is_shutdown()`.
LoopTopOnce(c, shut) == HandlerReturn(c, "ok")
LoopTopAgain(c, shut) == hPc' = [hPc EXCEPT ![c] = "select"] /\ UNCHANGED hResult
LoopTop(c, shut) ==
    IF shut THEN HandlerReturn(c, "ok")
    ELSE hPc' = [hPc EXCEPT ![c] = "select"] /\ UNCHANGED hResult

\* Handler::run: read_frame wins the select with a frame that parses into a
\* command; kind tells a SUBSCRIBE from the commands that reply once.
HandlerReadFrame(c, kind) ==
    /\ hPc[c] = "select"
    /\ ~peerClosed[c]
    /\ hPc' = [hPc EXCEPT ![c] = IF kind = "subscribe" THEN "acks" ELSE "apply"]
    /\ UNCHANGED <<runPc, sigint, lPc, backoff, permits, permitHeld, notifyAlive,
                   txHolders, spawned, isShutdown, peerClosed, hResult, failures, slept,
                   sessAtDrop, guardVars, restVars>>

\* Handler::run: read_frame fails (malformed bytes, reset, close inside a frame)
\* or Command::from_frame fails: the error is returned with `?`.
HandlerReadErr(c) ==
    /\ hPc[c] = "select"
    /\ ~peerClosed[c]
    /\ HandlerReturn(c, "err")
    /\ UNCHANGED <<runPc, sigint, lPc, backoff, permits, permitHeld, notifyAlive,
                   txHolders, spawned, isShutdown, peerClosed, failures, slept,
                   sessAtDrop, guardVars, restVars>>

\* Handler::run: read_frame yields None, the peer closed the socket.
HandlerReadEof(c) ==
    /\ hPc[c] = "select"
    /\ peerClosed' = [peerClosed EXCEPT ![c] = TRUE]
    /\ HandlerReturn(c, "ok")
    /\ UNCHANGED <<runPc, sigint, lPc, backoff, permits, permitHeld, notifyAlive,
                   txHolders, spawned, isShutdown, failures, slept, sessAtDrop,
                   guardVars, restVars>>

\* Handler::run polls shutdown.recv() in the select at the top of its loop
\* and nowhere else: `cmd.apply(..).await?` is outside the select.
SelectPointAny(c) == hPc[c] \in {"select", "apply", "acks"}
SelectPoint(c) == hPc[c] = "select"

\* Handler::run: shutdown.recv() wins the select.
HandlerShutdownEarly(c) ==
    /\ SelectPoint(c)
    /\ isShutdown' = [isShutdown EXCEPT ![c] = TRUE]
    /\ HandlerReturn(c, "ok")
    /\ UNCHANGED <<runPc, sigint, lPc, backoff, permits, permitHeld, notifyAlive,
                   txHolders, spawned, peerClosed, failures, slept, sessAtDrop,
                   guardVars, restVars>>
HandlerShutdown(c) ==
    /\ SelectPoint(c)
    /\ ShutdownRecvReady(c)
    /\ isShutdown' = [isShutdown EXCEPT ![c] = TRUE]
    /\ HandlerReturn(c, "ok")
    /\ UNCHANGED <<runPc, sigint, lPc, backoff, permits, permitHeld, notifyAlive,
                   txHolders, spawned, peerClosed, failures, slept, sessAtDrop,
                   guardVars, restVars>>

\* Command::apply of a command that replies once: the reply is written and
\* flushed, and the loop goes round.
HandlerApplyDone(c) ==
    /\ hPc[c] = "apply"
    /\ LoopTop(c, isShutdown[c])
    /\ UNCHANGED <<runPc, sigint, lPc, backoff, permits, permitHeld, notifyAlive,
                   txHolders, spawned, isShutdown, peerClosed, failures, slept,
                   sessAtDrop, guardVars, restVars>>

\* write_frame fails while a reply or an acknowledgement is written.
HandlerWriteErr(c) ==
    /\ hPc[c] \in {"apply", "acks"}
    /\ HandlerReturn(c, "err")
    /\ UNCHANGED <<runPc, sigint, lPc, backoff, permits, permitHeld, notifyAlive,
                   txHolders, spawned, isShutdown, peerClosed, failures, slept,
                   sessAtDrop, guardVars, restVars>>

\* Subscribe::apply: every acknowledgement is written; the session loop starts.
SubscribeAcked(c) ==
    /\ hPc[c] = "acks"
    /\ hPc' = [hPc EXCEPT ![c] = "session"]
    /\ UNCHANGED <<runPc, sigint, lPc, backoff, permits, permitHeld, notifyAlive,
                   txHolders, spawned, isShutdown, peerClosed, hResult, failures, slept,
                   sessAtDrop, guardVars, restVars>>

\* Subscribe::apply: the client sends Simple("shutdown"): apply returns Ok.
ClientShutdownReturn(c) ==
    /\ hPc[c] = "session"
    /\ LoopTop(c, isShutdown[c])
    /\ sessAtDrop' = sessAtDrop \ {c}
    /\ UNCHANGED <<runPc, sigint, lPc, backoff, permits, permitHeld, notifyAlive,
                   txHolders, spawned, isShutdown, peerClosed, failures, slept,
                   guardVars, dataVars>>

SessionClientShutdown(c) == ClientShutdownReturn(c) /\ UNCHANGED peerVars

\* The same step, recording the connection.
SessionClientShutdownSeen(c) ==
    /\ ClientShutdownReturn(c)
    /\ resumed' = resumed \cup {c}
    /\ UNCHANGED hungUp

\* A session that reads on when read_frame yields None.
SessionEofIgnored(c) ==
    /\ hPc[c] = "session"
    /\ peerClosed' = [peerClosed EXCEPT ![c] = TRUE]
    /\ UNCHANGED <<runPc, sigint, lPc, backoff, permits, permitHeld, notifyAlive,
                   txHolders, spawned, hPc, isShutdown, hResult, failures, slept,
                   sessAtDrop, guardVars, restVars>>

\* Subscribe::apply: read_frame yields None: apply returns Ok.
SessionEof(c) ==
    /\ hPc[c] = "session"
    /\ peerClosed' = [peerClosed EXCEPT ![c] = TRUE]
    /\ LoopTop(c, isShutdown[c])
    /\ sessAtDrop' = sessAtDrop \ {c}
    /\ UNCHANGED <<runPc, sigint, lPc, backoff, permits, permitHeld, notifyAlive,
                   txHolders, spawned, isShutdown, failures, slept, guardVars,
                   restVars>>

\* Subscribe::apply: read_frame or write_frame fails: apply returns Err.
SessionErr(c) ==
    /\ hPc[c] = "session"
    /\ HandlerReturn(c, "err")
    /\ sessAtDrop' = sessAtDrop \ {c}
    /\ UNCHANGED <<runPc, sigint, lPc, backoff, permits, permitHeld, notifyAlive,
                   txHolders, spawned, isShutdown, peerClosed, failures, slept,
                   guardVars, restVars>>

\* Subscribe::apply: shutdown.recv() wins the session's select: apply returns
\* Ok and the loop condition of Handler::run is now false.
SessionShutdown(c) ==
    /\ hPc[c] = "session"
    /\ ShutdownRecvReady(c)
    /\ isShutdown' = [isShutdown EXCEPT ![c] = TRUE]
    /\ LoopTop(c, TRUE)
    /\ UNCHANGED <<runPc, sigint, lPc, backoff, permits, permitHeld, notifyAlive,
                   txHolders, spawned, peerClosed, failures, slept, sessAtDrop,
                   guardVars, restVars>>

\* The spawned task after handler.run(): drop(permit).
TaskKeepPermit(c) ==
    /\ hPc[c] = "returned"
    /\ hPc' = [hPc EXCEPT ![c] = IF hResult[c] = "err" THEN "done" ELSE "released"]
    /\ permitHeld' = IF hResult[c] = "err" THEN permitHeld ELSE permitHeld \ {c}
    /\ permits' = IF hResult[c] = "err" THEN permits ELSE permits + 1
    /\ txHolders' = IF hResult[c] = "err" THEN txHolders \ {c} ELSE txHolders
    /\ UNCHANGED <<runPc, sigint, lPc, backoff, notifyAlive, spawned, isShutdown,
                   peerClosed, hResult, failures, slept, sessAtDrop, guardVars,
                   restVars>>
TaskDropPermit(c) ==
    /\ hPc[c] = "returned"
    /\ hPc' = [hPc EXCEPT ![c] = "released"]
    /\ permitHeld' = permitHeld \ {c}
    /\ permits' = permits + 1
    /\ UNCHANGED <<runPc, sigint, lPc, backoff, notifyAlive, txHolders, spawned,
                   isShutdown, peerClosed, hResult, failures, slept, sessAtDrop,
                   guardVars, restVars>>

\* The task ends: the Handler it owns is dropped, its mpsc sender last.
TaskEnd(c) ==
    /\ hPc[c] = "released"
    /\ hPc' = [hPc EXCEPT ![c] = "done"]
    /\ txHolders' = txHolders \ {c}
    /\ sessAtDrop' = sessAtDrop \ {c}
    /\ UNCHANGED <<runPc, sigint, lPc, backoff, permits, permitHeld, notifyAlive,
                   spawned, isShutdown, peerClosed, hResult, failures, slept,
                   guardVars, restVars>>

\* The client of connection c closes its socket, after a whole frame or
\* inside one; the handler has read whatever the client wrote before.
ClientHangUp(c, how) ==
    /\ hPc[c] \in {"select", "apply", "acks", "session"}
    /\ hungUp[c] = "no"
    /\ hungUp' = [hungUp EXCEPT ![c] = how]
    /\ UNCHANGED <<srvVars, guardVars, dataVars, resumed>>

\* The steps of a handler whose reads see what its client did: a frame while
\* the client is there, end of stream after a clean close, an error after a
\* close inside a frame. A write can fail at any time.
HandlerStepPeer(c) ==
    \/ \E kind \in {"command", "subscribe"} :
          hungUp[c] = "no" /\ HandlerReadFrame(c, kind)
    \/ hungUp[c] # "clean" /\ HandlerReadErr(c)
    \/ hungUp[c] = "clean" /\ HandlerReadEof(c)
    \/ HandlerShutdown(c)
    \/ HandlerApplyDone(c)
    \/ HandlerWriteErr(c)
    \/ SubscribeAcked(c)
    \/ hungUp[c] = "no" /\ SessionClientShutdown(c)
    \/ hungUp[c] = "clean" /\ SessionEof(c)
    \/ SessionErr(c)
    \/ SessionShutdown(c)
    \/ TaskDropPermit(c)
    \/ TaskEnd(c)

\* The steps of a handler, the sessions its client ends recorded.
HandlerStepSeen(c) ==
    \/ \E kind \in {"command", "subscribe"} : HandlerReadFrame(c, kind)
    \/ HandlerReadErr(c)
    \/ HandlerReadEof(c)
    \/ HandlerShutdown(c)
    \/ HandlerApplyDone(c)
    \/ HandlerWriteErr(c)
    \/ SubscribeAcked(c)
    \/ SessionClientShutdownSeen(c)
    \/ SessionEof(c)
    \/ SessionErr(c)
    \/ SessionShutdown(c)
    \/ TaskDropPermit(c)
    \/ TaskEnd(c)

HandlerStep(c) ==
    \/ \E kind \in {"command", "subscribe"} : HandlerReadFrame(c, kind)
    \/ HandlerReadErr(c)
    \/ HandlerReadEof(c)
    \/ HandlerShutdown(c)
    \/ HandlerApplyDone(c)
    \/ HandlerWriteErr(c)
    \/ SubscribeAcked(c)
    \/ SessionClientShutdown(c)
    \/ SessionEof(c)
    \/ SessionErr(c)
    \/ SessionShutdown(c)
    \/ TaskDropPermit(c)
    \/ TaskEnd(c)

ListenerStep ==
    \/ ListenerAcquire
    \/ ListenerAcceptOk
    \/ ListenerAcceptRetry
    \/ ListenerSleepDone
    \/ ListenerAcceptFatal

RunStep ==
    \/ RunShutdownBranch
    \/ RunDropNotify
    \/ RunDropTx
    \/ RunRecv
    \/ RunDropGuardFlag
    \/ RunDropGuardNotify

(***************************************************************************)
(* The frame codec (src/src/frame.rs, src/src/connection.rs) on bytes.     *)
(* A byte is a string of one character, a buffer a sequence of bytes, a    *)
(* cursor the number of bytes before it.  The text of a Simple, Error or   *)
(* Bulk frame is a sequence of bytes here.                                 *)
(***************************************************************************)
CR == "\r"
LF == "\n"
CRLF == <<CR, LF>>
DigitChars == <<"0", "1", "2", "3", "4", "5", "6", "7", "8", "9">>

\* Result<_, frame::Error> of the functions that move a cursor.
CurOk(pos, val) == [st |-> "ok", pos |-> pos, val |-> val]
CurIncomplete == [st |-> "incomplete", pos |-> 0, val |-> None]
CurErr == [st |-> "err", pos |-> 0, val |-> None]
CurPanic == [st |-> "panic", pos |-> 0, val |-> None]

\* frame.rs get_u8
GetU8(s, pos) ==
    IF pos >= Len(s) THEN CurIncomplete ELSE CurOk(pos + 1, s[pos + 1])

\* frame.rs skip
Skip(s, pos, n) ==
    IF Len(s) - pos < n THEN CurIncomplete ELSE CurOk(pos + n, None)

\* A line search that refuses a '\r' followed by another byte.
GetLineStrict(s, pos) ==
    LET crs == {i \in pos..(Len(s) - 2) : s[i + 1] = CR}
    IN  IF crs = {}
        THEN CurIncomplete
        ELSE LET i == CHOOSE j \in crs : \A k \in crs : j <= k
             IN  IF s[i + 2] = LF THEN CurOk(i + 2, SubSeq(s, pos + 1, i)) ELSE CurErr

\* frame.rs get_line: the bytes from the cursor to the first '\r' that is
\* followed by '\n', looking at the positions start..len-1.
GetLine(s, pos) ==
    LET ends == {i \in pos..(Len(s) - 2) : s[i + 1] = CR /\ s[i + 2] = LF}
    IN  IF ends = {}
        THEN CurIncomplete
        ELSE LET i == CHOOSE j \in ends : \A k \in ends : j <= k
             IN  CurOk(i + 2, SubSeq(s, pos + 1, i))

IsDigit(b) == \E d \in 1..10 : DigitChars[d] = b
DigitValue(b) == (CHOOSE d \in 1..10 : DigitChars[d] = b) - 1

RECURSIVE DigitsValue(_)
DigitsValue(ds) ==
    IF ds = <<>> THEN 0
    ELSE 10 * DigitsValue(SubSeq(ds, 1, Len(ds) - 1)) + DigitValue(ds[Len(ds)])

\* str::parse::<u64>: decimal digits after an optional '+'.
ParseU64(line) ==
    LET ds == IF line # <<>> /\ line[1] = "+" THEN Tail(line) ELSE line
    IN  IF ds # <<>> /\ \A i \in 1..Len(ds) : IsDigit(ds[i])
        THEN Some(DigitsValue(ds))
        ELSE None

\* frame.rs get_decimal
GetDecimal(s, pos) ==
    LET l == GetLine(s, pos)
    IN  IF l.st # "ok" THEN l
        ELSE IF ParseU64(l.val) = None THEN CurErr
        ELSE CurOk(l.pos, ParseU64(l.val)[1])

RECURSIVE FrameCheck(_, _)
RECURSIVE CheckEntries(_, _, _)
\* Frame::check, `for _ in 0..len { Frame::check(src)?; }`
CheckEntries(s, pos, n) ==
    IF n = 0 THEN CurOk(pos, None)
    ELSE LET r == FrameCheck(s, pos)
         IN  IF r.st # "ok" THEN r ELSE CheckEntries(s, r.pos, n - 1)

\* Frame::check
FrameCheck(s, pos) ==
    LET b == GetU8(s, pos)
    IN  IF b.st # "ok" THEN b
        ELSE CASE b.val \in {"+", "-", "_"} ->
                      LET l == GetLine(s, b.pos)
                      IN  IF l.st # "ok" THEN l ELSE CurOk(l.pos, None)
               [] b.val = ":" ->
                      LET d == GetDecimal(s, b.pos)
                      IN  IF d.st # "ok" THEN d ELSE CurOk(d.pos, None)
               [] b.val = "$" ->
                      LET d == GetDecimal(s, b.pos)
                      IN  IF d.st # "ok" THEN d ELSE Skip(s, d.pos, d.val + 2)
               [] b.val = "*" ->
                      LET d == GetDecimal(s, b.pos)
                      IN  IF d.st # "ok" THEN d ELSE CheckEntries(s, d.pos, d.val)
               [] OTHER -> CurErr

RECURSIVE FrameParse(_, _)
RECURSIVE ParseEntries(_, _, _, _)
\* Frame::parse, `for _ in 0..len { result.push(Frame::parse(src)?); }`
ParseEntries(s, pos, n, result) ==
    IF n = 0 THEN CurOk(pos, Array(result))
    ELSE LET r == FrameParse(s, pos)
         IN  IF r.st # "ok" THEN r
             ELSE ParseEntries(s, r.pos, n - 1, Append(result, r.val))

\* Frame::parse
FrameParse(s, pos) ==
    LET b == GetU8(s, pos)
    IN  IF b.st # "ok" THEN b
        ELSE CASE b.val = "+" ->
                      LET l == GetLine(s, b.pos)
                      IN  IF l.st # "ok" THEN l ELSE CurOk(l.pos, Simple(l.val))
               [] b.val = "-" ->
                      LET l == GetLine(s, b.pos)
                      IN  IF l.st # "ok" THEN l ELSE CurOk(l.pos, Error(l.val))
               [] b.val = ":" ->
                      LET d == GetDecimal(s, b.pos)
                      IN  IF d.st # "ok" THEN d ELSE CurOk(d.pos, Integer(d.val))
               [] b.val = "$" ->
                      LET d == GetDecimal(s, b.pos)
                      IN  IF d.st # "ok" THEN d
                          ELSE IF Len(s) - d.pos < d.val + 2 THEN CurIncomplete
                          ELSE CurOk(d.pos + d.val + 2,
                                     Bulk(SubSeq(s, d.pos + 1, d.pos + d.val)))
               [] b.val = "*" ->
                      LET d == GetDecimal(s, b.pos)
                      IN  IF d.st # "ok" THEN d ELSE ParseEntries(s, d.pos, d.val, <<>>)
               [] b.val = "_" ->
                      LET l == GetLine(s, b.pos)
                      IN  IF l.st # "ok" THEN l
                          ELSE IF Len(l.val) = 0 THEN CurOk(l.pos, Null) ELSE CurErr
               [] OTHER -> CurPanic

\* Connection::parse_frame on a buffer: the frame and the buffer advanced past
\* it, nothing yet, or an error.
ParseFrameBytes(buf) ==
    LET c == FrameCheck(buf, 0)
    IN  CASE c.st = "ok" ->
                 LET f == FrameParse(buf, 0)
                 IN  IF f.st = "ok"
                     THEN [st |-> "ok", frame |-> Some(f.val),
                           rest |-> SubSeq(buf, c.pos + 1, Len(buf))]
                     ELSE [st |-> "err", frame |-> None, rest |-> buf]
          [] c.st = "incomplete" -> [st |-> "none", frame |-> None, rest |-> buf]
          [] OTHER -> [st |-> "err", frame |-> None, rest |-> buf]

RECURSIVE Decimal(_)
\* `write!(&mut buf, "{}", val)`
Decimal(n) ==
    IF n < 10 THEN <<DigitChars[n + 1]>>
    ELSE Decimal(n \div 10) \o <<DigitChars[(n % 10) + 1]>>

\* Connection::write_decimal
WriteDecimal(n) == Decimal(n) \o CRLF

\* What a write puts into the BufWriter, or the panic that ends the task.
Wrote(bytes) == [st |-> "ok", bytes |-> bytes]
WritePanic == [st |-> "panic", bytes |-> <<>>]

\* Connection::write_value
WriteValue(f) ==
    CASE f.type = "Simple" -> Wrote(<<"+">> \o f.val \o CRLF)
      [] f.type = "Error" -> Wrote(<<"-">> \o f.val \o CRLF)
      [] f.type = "Integer" -> Wrote(<<":">> \o WriteDecimal(f.val))
      [] f.type = "Null" -> Wrote(<<"_">> \o CRLF)
      [] f.type = "Bulk" -> Wrote(<<"$">> \o WriteDecimal(Len(f.val)) \o f.val \o CRLF)
      [] f.type = "Array" -> WritePanic

RECURSIVE WriteEntries(_)
\* Connection::write_frame, `for entry in val.iter() { self.write_value(entry) }`
WriteEntries(items) ==
    IF items = <<>> THEN Wrote(<<>>)
    ELSE LET h == WriteValue(Head(items))
             r == WriteEntries(Tail(items))
         IN  IF h.st = "ok" /\ r.st = "ok" THEN Wrote(h.bytes \o r.bytes) ELSE WritePanic

\* Connection::write_frame: the bytes flushed to the socket.  A panic drops
\* the BufWriter with what it holds, so nothing of the frame is sent.
WriteFrame(f) ==
    IF f.type = "Array"
    THEN LET r == WriteEntries(f.val)
         IN  IF r.st = "ok"
             THEN Wrote(<<"*">> \o WriteDecimal(Len(f.val)) \o r.bytes)
             ELSE WritePanic
    ELSE WriteValue(f)

RECURSIVE Flatten(_)
Flatten(ss) == IF ss = <<>> THEN <<>> ELSE Head(ss) \o Flatten(Tail(ss))

\* Sequences of at most n members of S.
SeqsUpTo(S, n) == UNION {[1..m -> S] : m \in 0..n}

\* Pieces of wire text the decoder is given, in any order.
CodecPieces ==
    {<<"+", "a">>, <<"-", "a">>, <<":", "1">>, <<":", "+", "1">>, <<"$", "1">>,
     <<"$", "0">>, <<"*", "1">>, <<"*", "0">>, <<"_">>, <<"a">>, <<CR>>, CRLF}
CodecInputs == {Flatten(ps) : ps \in SeqsUpTo(CodecPieces, MaxPieces)}

NoResult == [st |-> "none"]

CodecIdle ==
    /\ src = <<>>
    /\ codecPc = "idle"
    /\ checkRes = NoResult
    /\ parseRes = NoResult
    /\ writeRes = NoResult
    /\ reparseRes = NoResult

\* The decoder is given some bytes.
CodecDraw ==
    /\ src \in CodecInputs
    /\ codecPc = "check"
    /\ checkRes = NoResult
    /\ parseRes = NoResult
    /\ writeRes = NoResult
    /\ reparseRes = NoResult

\* Connection::parse_frame, `match Frame::check(&mut buf)`
CodecCheck ==
    /\ codecPc = "check"
    /\ checkRes' = FrameCheck(src, 0)
    /\ codecPc' = IF checkRes'.st = "ok" THEN "parse" ELSE "done"
    /\ UNCHANGED <<src, parseRes, writeRes, reparseRes, readerVars, outsideCodec>>

\* Connection::parse_frame, `buf.set_position(0); Frame::parse(&mut buf)?`
CodecParse ==
    /\ codecPc = "parse"
    /\ parseRes' = FrameParse(src, 0)
    /\ codecPc' = IF parseRes'.st = "ok" THEN "write" ELSE "done"
    /\ UNCHANGED <<src, checkRes, writeRes, reparseRes, readerVars, outsideCodec>>

\* Connection::write_frame of the frame parsed.
CodecWrite ==
    /\ codecPc = "write"
    /\ writeRes' = WriteFrame(parseRes.val)
    /\ codecPc' = IF writeRes'.st = "ok" THEN "reparse" ELSE "done"
    /\ UNCHANGED <<src, checkRes, parseRes, reparseRes, readerVars, outsideCodec>>

\* Connection::parse_frame on the bytes written.
CodecReparse ==
    /\ codecPc = "reparse"
    /\ reparseRes' = ParseFrameBytes(writeRes.bytes)
    /\ codecPc' = "done"
    /\ UNCHANGED <<src, checkRes, parseRes, writeRes, readerVars, outsideCodec>>

NextCodec == CodecCheck \/ CodecParse \/ CodecWrite \/ CodecReparse

(***************************************************************************)
(* Connection::read_frame on a socket whose peer wrote frames with         *)
(* Connection::write_frame and closed, possibly in the middle of a frame.  *)
(* read_buf takes any positive number of the bytes that have arrived.      *)
(***************************************************************************)
Eof == [st |-> "eof"]
ReadErr(kind) == [st |-> "err", kind |-> kind]
Yield(f) == [st |-> "frame", frame |-> f]

\* The frames the peer writes: the replies and requests of the commands with
\* short texts, and an Error quoting a name that holds "\r\n" (Unknown::apply).
ReaderFrames ==
    {Simple(<<"a">>), Error(<<"a", CR, LF, "a">>), Integer(1), Bulk(<<"a">>), Bulk(<<>>),
     Null, Array(<<Bulk(<<"a">>)>>), Array(<<>>)}

RECURSIVE WriteAll(_)
\* The bytes of successive write_frame calls.
WriteAll(fs) ==
    IF fs = <<>> THEN <<>> ELSE WriteFrame(Head(fs)).bytes \o WriteAll(Tail(fs))

Prefixes(s) == {SubSeq(s, 1, n) : n \in 0..Len(s)}

ReaderIdle ==
    /\ rdSent = <<>>
    /\ rdStream = <<>>
    /\ rdSock = <<>>
    /\ rdBuf = <<>>
    /\ rdOut = <<>>
    /\ rdPc = "idle"

\* The peer has written some frames and closed; all or part of the bytes
\* arrive.
ReaderDraw ==
    /\ rdSent \in SeqsUpTo(ReaderFrames, MaxFrames)
    /\ rdStream \in Prefixes(WriteAll(rdSent))
    /\ rdSock = rdStream
    /\ rdBuf = <<>>
    /\ rdOut = <<>>
    /\ rdPc = "parse"

\* An end of stream that takes a partial frame for a clean close.
AtEofClean(buf) == Eof

\* read_frame, `if 0 == self.stream.read_buf(..)`: the peer has closed.
AtEof(buf) == IF buf = <<>> THEN Eof ELSE ReadErr("closed")

\* read_frame, `if let Some(frame) = self.parse_frame()?`: a frame is
\* returned and the caller calls again, an error is returned, or the loop
\* goes on to read.
ReadFrameParse ==
    /\ rdPc = "parse"
    /\ LET r == ParseFrameBytes(rdBuf)
       IN  CASE r.st = "ok" ->
                    /\ rdOut' = Append(rdOut, Yield(r.frame[1]))
                    /\ rdBuf' = r.rest
                    /\ rdPc' = "parse"
             [] r.st = "none" ->
                    /\ rdPc' = "read"
                    /\ UNCHANGED <<rdOut, rdBuf>>
             [] OTHER ->
                    /\ rdOut' = Append(rdOut, ReadErr("protocol"))
                    /\ rdPc' = "done"
                    /\ UNCHANGED rdBuf
    /\ UNCHANGED <<rdSent, rdStream, rdSock, codecVars, outsideCodec>>

\* read_frame, `self.stream.read_buf(&mut self.buffer).await?` takes n bytes.
ReadBuf(n) ==
    /\ rdPc = "read"
    /\ n \in 1..Len(rdSock)
    /\ rdBuf' = rdBuf \o SubSeq(rdSock, 1, n)
    /\ rdSock' = SubSeq(rdSock, n + 1, Len(rdSock))
    /\ rdPc' = "parse"
    /\ UNCHANGED <<rdSent, rdStream, rdOut, codecVars, outsideCodec>>

\* read_frame, read_buf returns 0.
ReadBufEof ==
    /\ rdPc = "read"
    /\ rdSock = <<>>
    /\ rdOut' = Append(rdOut, AtEof(rdBuf))
    /\ rdPc' = "done"
    /\ UNCHANGED <<rdSent, rdStream, rdSock, rdBuf, codecVars, outsideCodec>>

NextReader ==
    \/ ReadFrameParse
    \/ \E n \in 1..MaxChunk : ReadBuf(n)
    \/ ReadBufEof

Init ==
    /\ SrvInit /\ GuardInit /\ StoreInit /\ PipeInit /\ PubSubInit
    /\ CodecIdle /\ ReaderIdle

\* The same with bytes for the decoder, and with a peer's bytes for a reader.
InitCodec ==
    /\ SrvInit /\ GuardInit /\ StoreInit /\ PipeInit /\ PubSubInit
    /\ CodecDraw /\ ReaderIdle
InitReader ==
    /\ SrvInit /\ GuardInit /\ StoreInit /\ PipeInit /\ PubSubInit
    /\ CodecIdle /\ ReaderDraw

NextServer ==
    \/ Sigint
    \/ ListenerStep
    \/ RunStep
    \/ \E c \in Conns : HandlerStep(c)

SpecServer == Init /\ [][NextServer]_vars

SpecDb == Init /\ [][NextDb]_vars

SpecVis == Init /\ [][NextVis]_vars

SpecPipe == Init /\ [][NextPipe]_vars

SpecCodec == InitCodec /\ [][NextCodec]_vars

SpecReader == InitReader /\ [][NextReader]_vars

SpecPubSub == Init /\ [][NextPubSub]_vars

SpecSession == Init /\ [][NextSession]_vars

\* Scheduling: the session's task keeps being polled and its socket writes
\* complete; a stream that has a value infinitely often is taken infinitely
\* often (tokio::select! and StreamMap both start at a random position).
FairSession ==
    /\ WF_vars(DbSubscribe("s1") \/ StreamInsert("s1") \/ SubscribeAck("s1")
                  \/ SessionWrite("s1"))
    /\ \A ch \in Channels : SF_vars(SessionMessage("s1", ch))

LiveSession == Init /\ [][NextSession]_vars /\ FairSession

\* One session with the order of the values and of its Receivers recorded.
SpecOrder == Init /\ [][NextOrder]_vars

\* Scheduling: every spawned task and server::run keep being polled, socket
\* writes complete, and a select whose shutdown branch is ready infinitely
\* often takes it (tokio::select! starts at a random branch on every poll).
FairServer ==
    /\ WF_vars(RunStep)
    /\ \A c \in Conns :
          /\ WF_vars(HandlerApplyDone(c) \/ SubscribeAcked(c)
                        \/ TaskDropPermit(c) \/ TaskEnd(c))
          /\ SF_vars(HandlerShutdown(c) \/ SessionShutdown(c))

\* The server with a listening socket whose accept does not fail.
NextLive ==
    \/ Sigint
    \/ ListenerAcquire
    \/ ListenerAcceptOk
    \/ RunStep
    \/ \E c \in Conns : HandlerStep(c)

LiveServer == Init /\ [][NextLive]_vars /\ FairServer

\* The server with the sessions that clients end recorded.
NextResume ==
    \/ Sigint
    \/ ListenerAcquire
    \/ ListenerAcceptOk
    \/ RunStep
    \/ \E c \in Conns : HandlerStepSeen(c)

LiveResume == Init /\ [][NextResume]_vars /\ FairServer

\* The server and clients that may close their sockets.
NextPeer ==
    \/ Sigint
    \/ ListenerAcquire
    \/ ListenerAcceptOk
    \/ RunStep
    \/ \E c \in Conns : HandlerStepPeer(c)
    \/ \E c \in Conns, how \in {"clean", "midframe"} : ClientHangUp(c, how)

\* A read_frame in a select completes once the client has closed the socket.
FairPeer ==
    \A c \in Conns :
        WF_vars(\/ hungUp[c] = "clean" /\ (HandlerReadEof(c) \/ SessionEof(c))
                \/ hungUp[c] = "midframe" /\ (HandlerReadErr(c) \/ SessionErr(c)))

LivePeer == Init /\ [][NextPeer]_vars /\ FairServer /\ FairPeer

\* The same with a listening socket whose accept may fail.
LiveAccept == Init /\ [][NextServer]_vars /\ FairServer

(***************************************************************************)
(* Claims about the server.                                                *)
(***************************************************************************)
\* Handler tasks that hold a permit: spawned and not yet past drop(permit).
Admitted == permitHeld \cap Conns

\* C1: once the shutdown future has resolved, server::run eventually returns,
\* whatever the handlers are doing (under FairServer).
GracefulShutdown == sigint ~> (runPc = "returned")

C1Witness ==
    /\ sigint
    /\ runPc = "returned"
    /\ Cardinality({c \in Conns : isShutdown[c]}) >= 2

\* C2: once recv() has completed no handler task is left, recv() completes only
\* when no sender is left, and a task inside Handler::run (or not yet ended)
\* still holds its sender.
JoinSafety ==
    /\ runPc \in {"drop_guard", "returned"} => Unfinished = {} /\ txHolders = {}
    /\ \A c \in Unfinished : c \in txHolders
    /\ \A c \in Conns : hPc[c] = "none" => c \notin txHolders

C2Witness ==
    /\ runPc = "returned"
    /\ Cardinality({c \in Conns : hPc[c] = "done"}) >= 2

\* C3: signal -> join -> finalize: while server::run waits on the mpsc receiver
\* or is past it the broadcast sender is gone, and the store's shutdown flag is
\* set (the guard dropped) only after the wait, when no handler task is left.
ShutdownOrdering ==
    /\ runPc \in {"recv", "drop_guard", "returned"} => ~notifyAlive
    /\ (shutdown \/ guardPc # "held") =>
           /\ runPc \in {"drop_guard", "returned"}
           /\ Unfinished = {}

C3Witness ==
    /\ shutdown
    /\ guardPc = "dropped"
    /\ \E c \in Conns : hPc[c] = "done" /\ isShutdown[c]

FairDb == WF_vars(PurgerStep) /\ WF_vars(SetNotify("c1"))

LiveDb == Init /\ [][NextDbLive]_vars /\ FairDb

\* One key whose expiration is replaced, under the same scheduling.
LiveOverwrite == Init /\ [][NextOverwrite]_vars /\ FairDb

\* The expiration index the entries call for.
IndexOf(ent) ==
    {<<ent[k].expires_at[1], k>> : k \in {j \in DOMAIN ent : ent[j].expires_at # None}}

\* C5: outside the mutex, a tuple (t, k) is in the expiration index if and
\* only if entries[k] exists with expires_at = Some(t); so no key has two tuples.
StoreIndexConsistent == expirations = IndexOf(entries)

\* One key's expiration was removed by a later SET and another key was purged.
C5Witness ==
    \E k \in DOMAIN cleared, j \in DOMAIN lastSet :
        /\ j # k
        /\ j \notin DOMAIN entries
        /\ k \in DOMAIN entries

\* A key whose instant of expiration has been reached is still in the store.
Overdue(k) ==
    /\ k \in DOMAIN entries
    /\ entries[k].expires_at # None
    /\ entries[k].expires_at[1] <= now

\* The latest SET of k carries an expiration that has not been reached.
Fresh(k) ==
    /\ k \in DOMAIN lastSet
    /\ lastSet[k].expires_at # None
    /\ now < lastSet[k].expires_at[1]

\* C6: after set(k, v, ttl) at t0, not overwritten, get(k) returns Some(v) at
\* every time before t0 + ttl; and once the time has reached t0 + ttl the purge
\* task, unless the store is shut down or k is set again, eventually removes
\* k: Overdue(k) ends either with k out of entries, where get(k) is None, or
\* with a later SET of k.
TtlSemantics ==
    /\ [](\A k \in Keys : Fresh(k) => DbGet(k) = Some(lastSet[k].data))
    /\ \A k \in Keys : (Overdue(k) /\ ~shutdown) ~> (~Overdue(k) \/ shutdown)

\* A GET is answered Null for a key that was set with an expiration and has
\* been purged while the store is running.
C6Witness ==
    \E k \in DOMAIN lastSet :
        /\ lastSet[k].expires_at # None
        /\ lastSet[k].expires_at[1] <= now
        /\ k \notin DOMAIN entries
        /\ ~shutdown
        /\ cPc["c1"] = "write"
        /\ cCmd["c1"] = GetCmd(k)
        /\ cResp["c1"] = Null

\* C7: set(k, v, Some(ttl)) followed by set(k, v2, None) leaves no tuple for k
\* in the index and an entry with expires_at = None, which no later pass of
\* the purge task removes, the one at the old deadline included.
OverwriteClearsTtl ==
    \A k \in DOMAIN cleared :
        /\ k \in DOMAIN entries
        /\ entries[k].expires_at = None
        /\ entries[k].data = lastSet[k].data
        /\ \A e \in expirations : e[2] # k

\* The purge task has made a pass at or after the old deadline of a key whose
\* expiration a later SET removed.
C7Witness ==
    \E k \in DOMAIN cleared :
        /\ cleared[k].passed
        /\ now >= cleared[k].was
        /\ k \in DOMAIN entries

\* The tuples of the index whose instant has been reached, and their keys.
Due(exp, t) == {e \in exp : e[1] <= t}
DueKeys(exp, t) == {e[2] : e \in Due(exp, t)}

\* The smallest instant of a non-empty index.
Earliest(exp) == CHOOSE t \in {e[1] : e \in exp} : \A e \in exp : t <= e[1]

\* C26: a pass of purge_expired_keys at instant now, the store not shut down,
\* leaves in the index exactly the tuples with a later instant, removes the
\* entries of the tuples it took out and no other, leaves every entry without
\* expiration or with a later one as it was, and returns the smallest instant
\* left, None exactly when the index is left empty.
PurgePass ==
    [][(purgerPc = "purge" /\ purgerPc' # "purge" /\ ~shutdown) =>
          /\ expirations' = expirations \ Due(expirations, now)
          /\ DOMAIN entries' = DOMAIN entries \ DueKeys(expirations, now)
          /\ \A k \in DOMAIN entries :
                (entries[k].expires_at = None \/ entries[k].expires_at[1] > now)
                    => k \in DOMAIN entries' /\ entries'[k] = entries[k]
          /\ purgerWhen' = None <=> expirations' = {}
          /\ expirations' # {} => purgerWhen' = Some(Earliest(expirations'))
          /\ purgerPc' = IF expirations' = {} THEN "wait" ELSE "sleep"]_vars

\* A pass at instant 1 has returned instant 2: k1, due at 1, is gone, and k2,
\* due at 2, is in the store with its tuple.
C26Witness ==
    /\ now = 1
    /\ ~shutdown
    /\ purgerPc = "sleep"
    /\ purgerWhen = Some(2)
    /\ "k1" \in DOMAIN lastSet
    /\ lastSet["k1"].expires_at = Some(1)
    /\ "k1" \notin DOMAIN entries
    /\ "k2" \in DOMAIN entries
    /\ expirations = {<<2, "k2">>}

\* The call of Db::set by c has released the mutex in this step; k is its key.
SetUnlocks(c) == cPc[c] = "select" /\ cPc'[c] = "notify"

\* C27: Db::set decides under the lock, against the index as it is before the
\* call changes it: `notify` is true exactly when the entry stored has an
\* expiration and the index was empty or its earliest instant was strictly
\* later than the new one; the step under the lock leaves the notifier alone,
\* and the step after it stores a permit exactly when `notify` is true and
\* touches neither the entries nor the index.
WakeUpRule ==
    [][\A c \in Clients :
          /\ SetUnlocks(c) =>
                LET w == entries'[cCmd'[c].key].expires_at
                IN  /\ cNotify'[c] <=>
                          /\ w # None
                          /\ expirations = {} \/ w[1] < Earliest(expirations)
                    /\ bgPermit' = bgPermit
          /\ (cPc[c] = "notify" /\ cPc'[c] # "notify") =>
                /\ bgPermit' = (bgPermit \/ cNotify[c])
                /\ UNCHANGED <<entries, expirations>>]_vars

\* Db::set has released the lock with `notify` true: k1 was stored with an
\* instant earlier than that of k2, which was in the index before.
C27Witness ==
    /\ cPc["c1"] = "notify"
    /\ cNotify["c1"]
    /\ cCmd["c1"].key = "k1"
    /\ expirations = {<<1, "k1">>, <<2, "k2">>}
    /\ ~bgPermit

\* C28: once DbDropGuard has been dropped (the flag set under the lock, then
\* one notification), the purge task exits, whatever it was doing meanwhile.
PurgerExits == (guardPc = "dropped") ~> (purgerPc = "exit")

\* The flag was set after the purge task's shutdown check and before its wait,
\* while the permit of an earlier set is pending and the notification of the
\* drop is still to come.
C28Witness ==
    /\ purgerPc = "purge"
    /\ shutdown
    /\ guardPc = "flagged"
    /\ bgPermit

\* The purge task, once gone, stays gone and leaves the store alone.
ExitIsFinal ==
    [][purgerPc = "exit" =>
          /\ purgerPc' = "exit"
          /\ \A k \in DOMAIN entries : k \in DOMAIN entries']_vars

(***************************************************************************)
(* The store under two connections: SpecVis.                               *)
(***************************************************************************)
\* C8 as stated: once "OK" was written in reply to SET k v without TTL, a GET k
\* that starts afterwards, on any connection, is never answered Null.
SetVisibleForever ==
    [][\A c \in Clients, k \in Keys :
          (k \in acked /\ ApplyGet(c, k)) => cResp'[c] # Null]_vars

\* C8: once "OK" was written in reply to SET k v without TTL, a GET k that
\* starts afterwards, on any connection, is answered Bulk(v2), v2 the value of
\* the latest SET k applied (that SET or a later one), or Null when that latest
\* SET carried an expiration whose instant has been reached.
SetVisibility ==
    [][\A c \in Clients, k \in Keys :
          (k \in acked /\ ApplyGet(c, k)) =>
              \/ cResp'[c] = Bulk(lastSet[k].data)
              \/ /\ cResp'[c] = Null
                 /\ lastSet[k].expires_at # None
                 /\ lastSet[k].expires_at[1] <= now]_vars

\* One connection is answered the value of an acknowledged SET the other
\* connection is still the latest writer of.
C8Witness ==
    \E c \in Clients, k \in acked :
        /\ cPc[c] = "write"
        /\ cCmd[c] = GetCmd(k)
        /\ cResp[c] = Bulk(lastSet[k].data)
        /\ lastSet[k].expires_at = None

(***************************************************************************)
(* One connection with pipelined requests: SpecPipe.                       *)
(***************************************************************************)
\* The replies a handler that takes the requests one at a time gives.
RECURSIVE RepliesTo(_, _)
RepliesTo(reqs, store) ==
    IF reqs = <<>> THEN <<>>
    ELSE LET parsed == FromFrame(Head(reqs))
             cmd == parsed.cmd
         IN  IF ~parsed.ok THEN <<>>
             ELSE LET reply == CASE cmd.name = "set" -> Simple("OK")
                                 [] cmd.name = "get" ->
                                      IF cmd.key \in DOMAIN store THEN Bulk(store[cmd.key])
                                      ELSE Null
                                 [] cmd.name = "ping" -> PingResponse(cmd)
                                 [] OTHER -> UnknownResponse(cmd)
                      after == IF cmd.name = "set" THEN MapInsert(store, cmd.key, cmd.value)
                               ELSE store
                  IN  <<reply>> \o RepliesTo(Tail(reqs), after)

\* C9: a command is applied only once the reply to the one before it has been
\* written and flushed, and the replies flushed so far are, in order and one
\* each, the replies to the first requests the client wrote, however many
\* requests were buffered together.
PerConnectionOrdering ==
    /\ pPc \in {"select", "apply"} => applied = Len(outq)
    /\ pPc \in {"write", "flush"} => applied = Len(outq) + 1
    /\ Len(outq) <= Len(RepliesTo(sent, <<>>))
    /\ \A i \in 1..Len(outq) : outq[i] = RepliesTo(sent, <<>>)[i]

\* A command is being applied with the next request already in the buffer and
\* an earlier reply already flushed.
C9Witness ==
    /\ pPc = "apply"
    /\ buffer # <<>>
    /\ outq # <<>>
    /\ Len(sent) >= 3

FrameEqStr(f, str) == f.type \in {"Simple", "Bulk"} /\ f.val = str

\* Client::subscribe_cmd's test of the response read for one channel.
ClientAccepts(f, ch) ==
    /\ f.type = "Array"
    /\ Len(f.val) >= 2
    /\ FrameEqStr(f.val[1], "subscribe")
    /\ FrameEqStr(f.val[2], ch)

\* The frame is what the session writes for a published value.
IsMessageFrame(f) == f.type = "Array" /\ Len(f.val) = 3 /\ f.val[1] = Bulk("message")

\* C11: the first n frames a session for SUBSCRIBE c1..cn writes are the
\* acknowledgements Array["subscribe", ci, size], in the order of the request,
\* size being the number of distinct names among c1..ci; every frame after
\* them is a message frame; a session in its select loop has written all n;
\* and the client's test accepts the i-th frame for ci.
SubscribeAcks ==
    \A s \in Sessions :
        /\ sPc[s] \in {"subscribe", "insert", "ack"} =>
               Len(sOut[s]) = Len(sReq[s]) - Len(sTodo[s])
                                 - (IF sPc[s] = "subscribe" THEN 0 ELSE 1)
        /\ sPc[s] \in {"loop", "write"} => Len(sOut[s]) >= Len(sReq[s])
        /\ \A i \in 1..Len(sOut[s]) :
              IF i <= Len(sReq[s])
              THEN /\ sOut[s][i] = Array(<<Bulk("subscribe"), Bulk(sReq[s][i]),
                                           Integer(Cardinality({sReq[s][j] : j \in 1..i}))>>)
                   /\ ClientAccepts(sOut[s][i], sReq[s][i])
              ELSE IsMessageFrame(sOut[s][i])

\* Two channels acknowledged, then a message written.
C11Witness ==
    /\ sReq["s1"] = <<"ch1", "ch2">>
    /\ Len(sOut["s1"]) = 3
    /\ sOut["s1"][2] = Array(<<Bulk("subscribe"), Bulk("ch2"), Integer(2)>>)
    /\ IsMessageFrame(sOut["s1"][3])


\* The elements of a sequence.
Range(seq) == {seq[i] : i \in DOMAIN seq}

\* The session has written the message frame for value m of channel ch.
Written(s, ch, m) == MakeMessageFrame(ch, m) \in Range(sOut[s])

\* A Receiver of the session has missed values, or its stream has been
\* handed RecvError::Lagged.
Lag(s) == sLagged[s] \/ \E c \in sStreams[s] : sRx[s][c].lagged

\* Subscribe::apply has returned.
Ended(s) == sPc[s] \in {"drop", "idle"}

\* No frame is written twice.
WrittenOnce(s) ==
    \A i, j \in DOMAIN sOut[s] :
        i # j /\ IsMessageFrame(sOut[s][i]) /\ IsMessageFrame(sOut[s][j])
            => sOut[s][i] # sOut[s][j]

\* The publisher's reply counted every session that held the channel.
CountsSessions == lastPub # None => lastPub[1].n >= lastPub[1].sessions

\* C12 as stated: a value published to ch while the session's StreamMap holds
\* ch is counted in the publisher's reply and, unless the session ends or
\* lags, is eventually written by the session, once.
PublishDelivered ==
    /\ [](CountsSessions /\ WrittenOnce("s1"))
    /\ \A ch \in Channels, i \in 1..MaxPubs :
          (<<ch, Payload(i)>> \in sDue["s1"])
              ~> (Written("s1", ch, Payload(i)) \/ <<ch, Payload(i)>> \notin sDue["s1"]
                     \/ Lag("s1"))

\* The stream of ch in the StreamMap has value m to yield and stays in the
\* map: the SUBSCRIBE being served does not name ch again.
Owed(s, ch, m) ==
    /\ ~Ended(s)
    /\ ch \in sStreams[s]
    /\ m \in Range(sRx[s][ch].q)
    /\ ch \notin Range(sTodo[s])
    /\ sLocal[s] # Some(ch)

\* A publish to a channel the session's StreamMap holds reaches that stream.
PublishReaches(s) ==
    \A ch \in sStreams[s] :
        (npub' = npub + 1 /\ lastPub'[1].ch = ch /\ sPc[s] # "drop")
            => Payload(npub') \in Range(sRx'[s][ch].q)

\* What holds of C12: the publisher's reply counts the session and the value
\* reaches the stream the StreamMap holds for ch; unless the session ends,
\* lags, or replaces that stream because its SUBSCRIBE names ch again, the
\* value is eventually written by the session, once.
PublishDelivery ==
    /\ [](CountsSessions /\ WrittenOnce("s1"))
    /\ [][PublishReaches("s1")]_vars
    /\ \A ch \in Channels, i \in 1..MaxPubs :
          Owed("s1", ch, Payload(i))
              ~> (Written("s1", ch, Payload(i)) \/ Ended("s1") \/ Lag("s1"))

\* A value published while the session held the channel, counted in the
\* publisher's reply, is in no stream of the session and was not written; the
\* session is in its loop and no Receiver of it has lagged.
C12Witness ==
    /\ sReq["s1"] = <<"ch1", "ch1">>
    /\ sPc["s1"] = "loop"
    /\ sDue["s1"] = {<<"ch1", Payload(1)>>}
    /\ lastPub # None
    /\ lastPub[1].n = 1
    /\ sRx["s1"]["ch1"] = NoRx
    /\ sOut["s1"] = <<MakeSubscribeFrame("ch1", 1), MakeSubscribeFrame("ch1", 1)>>
    /\ ~Lag("s1")


\* C13: a step of a session in its loop that reads a client frame: on
\* Simple("shutdown") Subscribe::apply returns Ok; any other frame is consumed
\* and nothing else changes: no reply is written, the session stays in its
\* loop with the same streams, and the receivers of every channel stay.
ClientFrameEffect ==
    [][\A s \in Sessions :
          (sPc[s] = "loop" /\ sIn[s] # <<>> /\ sIn'[s] = Tail(sIn[s])) =>
              /\ sOut'[s] = sOut[s]
              /\ IF Head(sIn[s]).type = "Simple" /\ Head(sIn[s]).val = "shutdown"
                 THEN sPc'[s] \in {"drop", "idle"} /\ sResult'[s] = "ok"
                 ELSE /\ sPc'[s] = "loop"
                      /\ sResult'[s] = "none"
                      /\ UNCHANGED <<sStreams, sRx, sMsg, pubSub>>]_vars

\* A session with two streams has read Simple("shutdown") and returned Ok.
C13Witness ==
    /\ sLastRead["s1"] = Simple("shutdown")
    /\ sResult["s1"] = "ok"
    /\ sPc["s1"] = "drop"
    /\ sStreams["s1"] = {"ch1", "ch2"}

\* The session's frames so far are subscribe acks and message frames.
NoErrorFrame(s) ==
    /\ \A i \in DOMAIN sOut[s] : sOut[s][i].type = "Array"
    /\ sMsg[s] # NoFrame => sMsg[s].type = "Array"

\* A step in which a stream that was handed RecvError::Lagged goes on: it
\* yields the oldest value retained and the session writes its frame next.
LagSwallowed(s) ==
    \A ch \in sStreams[s] :
        (sPc[s] = "loop" /\ sRx[s][ch].lagged
            /\ ch \in sStreams'[s] /\ ~sRx'[s][ch].lagged)
            => /\ sPc'[s] = "write"
               /\ sMsg'[s] = MakeMessageFrame(ch, Head(sRx[s][ch].q))
               /\ sRx'[s][ch].q = Tail(sRx[s][ch].q)
               /\ sResult'[s] = sResult[s]
               /\ sLagged'[s]

\* A publish to a stream that is Capacity values behind: it returns the count
\* of Receivers, the new value is the newest retained and the oldest is gone.
PublishOverruns(s) ==
    \A ch \in sStreams[s] :
        (npub' = npub + 1 /\ lastPub'[1].ch = ch /\ Len(sRx[s][ch].q) = Capacity)
            => /\ pubResp' = Integer(lastPub'[1].n)
               /\ lastPub'[1].n >= 1
               /\ sRx'[s][ch].lagged
               /\ sRx'[s][ch].q = Append(Tail(sRx[s][ch].q), Payload(npub'))

\* Value m of channel ch was overwritten in the stream before it was yielded.
Overrun(s, ch, m) ==
    /\ ch \in sStreams[s]
    /\ sRx[s][ch].lagged
    /\ m \notin Range(sRx[s][ch].q)
    /\ sMsg[s] # MakeMessageFrame(ch, m)
    /\ ~Written(s, ch, m)

\* C15: a Receiver that fell more than Capacity values behind does not end the
\* session and puts no Error frame on the socket: its stream swallows the lag
\* report and yields the oldest value retained; every value retained, and
\* every later one, is eventually written unless the session ends or the
\* value is overwritten in turn; Db::publish is enabled whatever the
\* Receivers' backlog.
LagTolerance ==
    /\ [](NoErrorFrame("s1"))
    /\ [][LagSwallowed("s1") /\ PublishOverruns("s1")]_vars
    /\ [](\A ch \in Channels : npub < MaxPubs => ENABLED Publish(ch))
    /\ \A ch \in Channels, i \in 1..MaxPubs :
          (Lag("s1") /\ Owed("s1", ch, Payload(i)))
              ~> (Written("s1", ch, Payload(i)) \/ Ended("s1")
                     \/ Overrun("s1", ch, Payload(i)))

\* The session's stream of ch1 lagged: the first value was overwritten and
\* never written, the second and the third were written, and the session is
\* still in its loop.
C15Witness ==
    /\ sLagged["s1"]
    /\ sPc["s1"] = "loop"
    /\ sResult["s1"] = "none"
    /\ ~Written("s1", "ch1", Payload(1))
    /\ Written("s1", "ch1", Payload(2))
    /\ Written("s1", "ch1", Payload(3))


(***************************************************************************)
(* More claims about the server: SpecServer and LiveServer.                *)
(***************************************************************************)
\* C14 as stated: a handler in a subscribe session when the broadcast sender
\* is dropped leaves that session only by its shutdown branch, with
\* is_shutdown true and Handler::run returning Ok, and server::run returns.
SessionEndsAtNextSelect ==
    /\ [][\A c \in Conns :
             (c \in sessAtDrop /\ hPc[c] = "session" /\ hPc'[c] # "session") =>
                 (isShutdown'[c] /\ hPc'[c] = "returned" /\ hResult'[c] = "ok")]_vars
    /\ (\E c \in sessAtDrop : hPc[c] = "session") ~> (runPc = "returned")

\* C14, amended: a session that takes its shutdown branch does so after the
\* sender was dropped, sets is_shutdown and makes Handler::run return Ok at
\* once; a handler whose is_shutdown is true is never again inside
\* Handler::run's loop; and once the sender is dropped while a handler is in a
\* session, server::run eventually returns (under FairServer), through
\* whichever ready branch the session's select takes first.
ServerEndsSession ==
    /\ [](\A c \in Conns :
             isShutdown[c] => hPc[c] \in {"returned", "released", "done"}
                                 /\ hResult[c] = "ok")
    /\ [][\A c \in Conns :
             (hPc[c] = "session" /\ hPc'[c] # "session" /\ c \in sessAtDrop') =>
                 /\ ~notifyAlive
                 /\ isShutdown'[c] /\ hPc'[c] = "returned" /\ hResult'[c] = "ok"]_vars
    /\ (\E c \in sessAtDrop : hPc[c] = "session") ~> (runPc = "returned")

\* A session in progress when the sender was dropped ended by its shutdown
\* branch and Handler::run returned Ok; server::run waits for the task.
C14Witness ==
    /\ runPc = "recv"
    /\ \E c \in sessAtDrop :
           hPc[c] = "released" /\ isShutdown[c] /\ hResult[c] = "ok"

\* The sleeps of Listener::accept between failed attempts, in seconds.
Backoffs == <<1, 2, 4, 8, 16, 32, 64>>

\* The sleeps since the last successful accept are the first of Backoffs, in order.
SleepsInOrder ==
    /\ Len(slept) <= Len(Backoffs)
    /\ \A i \in DOMAIN slept : slept[i] = Backoffs[i]

BackoffReset ==
    /\ (lPc = "accept" /\ failures = 0) => backoff = 1
    /\ (lPc = "sleep" /\ failures = 1) => slept = <<1>> /\ backoff = 1

\* After two successful accepts the next accept has failed once: the accept
\* loop sleeps 1 second.
C17Witness ==
    /\ spawned = 2
    /\ lPc = "sleep"
    /\ failures = 1
    /\ slept = <<1>>

\* Handler::run of c returns an Err in this step.
RunFails(c) == hResult[c] # "err" /\ hResult'[c] = "err"

\* The step in which Handler::run of c returns an Err changes nothing but
\* that task's position and result.
OnlyThatTask(c) ==
    RunFails(c) =>
        /\ hPc'[c] = "returned"
        /\ \A d \in Conns \ {c} : hPc'[d] = hPc[d] /\ hResult'[d] = hResult[d]
        /\ UNCHANGED <<runPc, lPc, sigint, backoff, spawned, notifyAlive, permits,
                       permitHeld, txHolders, isShutdown, guardVars>>
        /\ UNCHANGED <<entries, expirations, pubSub>>

ReturnLeavesStore ==
    [][(pPc # "done" /\ pPc' = "done") => UNCHANGED <<entries, expirations, pubSub>>]_vars
ReturnLeavesChannels ==
    [][/\ \A s \in Sessions :
              (sResult[s] # "err" /\ sResult'[s] = "err")
                  => UNCHANGED <<entries, expirations, pubSub>>
       /\ DOMAIN pubSub \subseteq DOMAIN pubSub']_vars

\* A handler is writing a reply or the acknowledgements of a SUBSCRIBE.
Writing(c) == hPc[c] \in {"apply", "acks"}

\* C24: a handler takes notice of the shutdown signal only in the select of
\* Handler::run or in the select of a subscribe session; a handler that is
\* applying a command or writing acknowledgements when the signal is given has
\* not taken notice of it, and leaves that position only with the frame
\* written and flushed (to go on to its next select) or with an I/O error.
ShutdownAtSelect ==
    /\ [](\A c \in Conns : Writing(c) => ~isShutdown[c])
    /\ [][\A c \in Conns :
             /\ (~isShutdown[c] /\ isShutdown'[c])
                   => hPc[c] \in {"select", "session"} /\ ~notifyAlive
             /\ (Writing(c) /\ hPc'[c] # hPc[c])
                   => \/ hPc'[c] \in {"select", "session"} /\ hResult'[c] = hResult[c]
                      \/ hPc'[c] = "returned" /\ hResult'[c] = "err"]_vars

\* The broadcast sender was dropped while one handler is applying a command
\* and another is writing the acknowledgements of a SUBSCRIBE.
C24Witness ==
    /\ ~notifyAlive
    /\ \E c, d \in Conns : hPc[c] = "apply" /\ hPc[d] = "acks"

\* Handler::run of c has not returned.
Running(c) == hPc[c] \in {"select", "apply", "acks", "session"}

\* C25 as stated: once the broadcast sender is dropped a handler leaves the
\* select at the top of its loop only by the shutdown branch, returning Ok,
\* and no handler starts applying a command.
NoCommandAfterSignal ==
    [][\A c \in Conns :
          /\ (~notifyAlive /\ hPc[c] = "select" /\ hPc'[c] # "select")
                => isShutdown'[c] /\ hPc'[c] = "returned" /\ hResult'[c] = "ok"
          /\ (~Writing(c) /\ Writing(c)') => notifyAlive]_vars

\* C25: the shutdown branch of Handler::run's select is taken only once the
\* broadcast sender is dropped, and taking it returns Ok at once; while a
\* frame can be read as well the select may take either branch, so a handler
\* may still apply commands after the signal, but under fair selection every
\* handler returns.
SignalEndsHandlers ==
    /\ [][\A c \in Conns :
             (hPc[c] = "select" /\ ~isShutdown[c] /\ isShutdown'[c])
                 => ~notifyAlive /\ hPc'[c] = "returned" /\ hResult'[c] = "ok"]_vars
    /\ (~notifyAlive /\ \E c \in Conns : Running(c)) ~> (\A c \in Conns : ~Running(c))

\* After the drop one handler, which was in no session at the drop, has taken
\* the shutdown branch and returned Ok while another is still at its select.
C25Witness ==
    /\ ~notifyAlive
    /\ sessAtDrop = {}
    /\ \E c, d \in Conns :
          /\ hPc[c] = "returned" /\ isShutdown[c] /\ hResult[c] = "ok" /\ ~peerClosed[c]
          /\ hPc[d] = "select"

\* The same on the connection of SpecPipe and on the session of SpecSession,
\* where a write is a step of its own: Handler::run returns from its select
\* with every reply of an applied command flushed, and Subscribe::apply
\* returns Ok from its select with no frame half written.
ReturnsAtSelect ==
    [][(pPc = "select" /\ pPc' = "done")
          => wbuf = <<>> /\ pResp = NoFrame /\ applied = Len(outq)]_vars
SessionReturnsAtSelect ==
    [][\A s \in Sessions :
          (sResult[s] # "ok" /\ sResult'[s] = "ok")
              => sPc[s] = "loop" /\ sMsg[s] = NoFrame]_vars

(***************************************************************************)
(* More claims about one connection: SpecPipe.                             *)
(***************************************************************************)
\* The names Command::from_frame matches.
CommandNames == {"get", "set", "publish", "subscribe", "ping"}

\* The name, or the command name it is when case is ignored.
IgnoringCase(str) == IF str = "PING" THEN "ping" ELSE str

\* An Array frame whose first element is a string that is no command name.
IsUnknownRequest(f) ==
    /\ f.type = "Array"
    /\ f.val # <<>>
    /\ f.val[1].type \in {"Simple", "Bulk"}
    /\ IgnoringCase(f.val[1].val) \notin CommandNames

\* A PING without a message, in either case.
IsPingRequest(f) == f \in {Request(<<"ping">>), Request(<<"PING">>)}

\* The requests read off the socket and taken out of the buffer so far.
Consumed == Len(sent) - Len(wire) - Len(buffer)

\* The step of Handler::run that takes an unknown command out of the buffer
\* parses it, and the step that applies it builds one Error frame to write
\* and leaves the store alone.
UnknownApplied ==
    /\ (pPc = "select" /\ buffer # <<>> /\ buffer' # buffer
           /\ IsUnknownRequest(Head(buffer)))
          => pPc' = "apply" /\ pCmd'.name = "unknown"
    /\ (pPc = "apply" /\ pCmd.name = "unknown" /\ pPc' # "apply")
          => /\ pPc' = "write"
             /\ pResp'.type = "Error"
             /\ UNCHANGED <<entries, expirations, wbuf, outq>>

\* C18: a request whose first element is no command name, whatever follows
\* it, is answered with one Error frame in its place among the replies, the
\* entries and the expiration index are as before, the handler goes on to
\* write the reply and to read again, and a PING that follows is answered
\* Simple("PONG"); the names are matched ignoring case.
UnknownCommand ==
    /\ [](/\ Len(outq) + Len(wbuf) <= applied
          /\ applied <= Consumed
          /\ \A i \in 1..Len(outq) :
                /\ IsUnknownRequest(sent[i]) => outq[i].type = "Error"
                /\ IsPingRequest(sent[i]) => outq[i] = Simple("PONG")
                /\ outq[i].type = "Error" => IsUnknownRequest(sent[i]))
    /\ [][UnknownApplied]_vars

\* After a SET, the request FOO k1 was answered with an Error frame, the PING
\* written after it with PONG, and k1 holds what the SET stored.
C18Witness ==
    /\ sent = <<Request(<<"set", "k1", "v1">>), Request(<<"FOO", "k1">>), Request(<<"PING">>)>>
    /\ outq = <<Simple("OK"), Error("foo"), Simple("PONG")>>
    /\ pPc = "select"
    /\ "k1" \in DOMAIN entries
    /\ entries["k1"].data = "v1"

\* A frame that names a command and has arguments the command does not take:
\* a missing field, an element of the wrong type, a surplus element.
InvalidArguments(f) ==
    f \in {Request(<<"get">>), Request(<<"subscribe">>), Request(<<"ping", "m1", "m2">>),
           Array(<<Bulk("get"), Integer(1)>>)}

\* C19 as stated: the step of Handler::run that takes a frame with invalid
\* arguments out of the buffer goes on to an Error reply, and the connection
\* keeps being served.
ArgumentErrorReported ==
    [][(pPc = "select" /\ buffer # <<>> /\ buffer' # buffer
           /\ InvalidArguments(Head(buffer)))
          => pPc' # "done"]_vars

\* Handler::run has returned on a GET without a key that followed a PING: the
\* only reply is the one to the PING, and the client has not closed.
C19Witness ==
    /\ sent = <<Request(<<"ping">>), Request(<<"get">>)>>
    /\ Consumed = 2
    /\ pPc = "done"
    /\ ~pipeClosed
    /\ outq = <<Simple("PONG")>>
    /\ wbuf = <<>>
    /\ applied = 1


\* C21 as stated: the frame Client::set_expires writes for a key, a value and
\* a TTL is parsed by the handler into the SET of that key, value and TTL, which
\* is applied next.
SetTtlAgreement ==
    [][\A k \in Keys, v \in Values, ms \in 1..MaxTtl :
          (pPc = "select" /\ buffer # <<>> /\ buffer' # buffer
              /\ Head(buffer) = SetIntoFrame(k, v, Some(ms)))
             => pPc' = "apply" /\ pCmd' = SetOf(k, v, Some(ms))]_vars

\* Handler::run has returned on the frame of set_expires: nothing was
\* applied or replied and the key is not in the store.
C21Witness ==
    /\ sent = <<SetIntoFrame("k1", "v1", Some(MaxTtl))>>
    /\ Consumed = 1
    /\ pPc = "done"
    /\ ~pipeClosed
    /\ applied = 0
    /\ outq = <<>>
    /\ "k1" \notin DOMAIN entries

(***************************************************************************)
(* The frame codec on bytes: SpecCodec.                                    *)
(***************************************************************************)
\* write_frame wrote the frame parsed and parse_frame read the same frame
\* back, leaving nothing.
ReadBack ==
    /\ writeRes.st = "ok"
    /\ reparseRes.st = "ok"
    /\ reparseRes.frame = Some(parseRes.val)
    /\ reparseRes.rest = <<>>

\* C22: every frame Frame::parse produces, arrays inside arrays included,
\* is written by write_frame as bytes that parse to an equal frame.
FrameRoundTrip == (codecPc = "done" /\ parseRes.st = "ok") => ReadBack

\* Frame::parse produced an array inside an array and write_frame panicked.
C22Witness ==
    /\ codecPc = "done"
    /\ src = <<"*", "1", CR, LF, "*", "0", CR, LF>>
    /\ parseRes.st = "ok"
    /\ parseRes.val = Array(<<Array(<<>>)>>)
    /\ writeRes = WritePanic

\* An array with an array among its entries.
IsNested(f) == f.type = "Array" /\ \E i \in 1..Len(f.val) : f.val[i].type = "Array"

\* Every other frame Frame::parse produces is read back as written.
FlatRoundTrip ==
    (codecPc = "done" /\ parseRes.st = "ok" /\ ~IsNested(parseRes.val)) => ReadBack

\* The record that starts the input holds a '\r' followed by a byte other
\* than '\n' before any "\r\n".
LoneCr ==
    /\ src # <<>>
    /\ src[1] \in {"+", "-", ":", "$", "*", "_"}
    /\ \E i \in 2..(Len(src) - 1) :
          /\ src[i] = CR
          /\ src[i + 1] # LF
          /\ \A j \in 2..(i - 1) : ~(src[j] = CR /\ src[j + 1] = LF)

\* C30: a '\r' followed by a byte other than '\n' in a record that ends with
\* "\r\n" makes Frame::check or Frame::parse fail with an error that is not
\* Incomplete, once the bytes suffice for Frame::check to decide; the byte is
\* not taken as text of the record.
LineTerminatorChecked ==
    (codecPc \notin {"check", "parse"} /\ LoneCr /\ checkRes.st # "incomplete") =>
        checkRes.st = "err" \/ parseRes.st = "err"

\* "+a\ra\r\n" was parsed as the Simple frame with the text "a\ra".
C30Witness ==
    /\ codecPc = "done"
    /\ src = <<"+", "a", CR, "a", CR, LF>>
    /\ checkRes.st = "ok"
    /\ parseRes.st = "ok"
    /\ parseRes.val = Simple(<<"a", CR, "a">>)

\* In the length line of a Bulk or an Array and in an Integer the byte is
\* refused once the line is complete, and waited on until then.
NumberLineRefused ==
    (codecPc \notin {"check", "parse"} /\ LoneCr /\ src[1] \in {":", "$", "*"}) =>
        checkRes.st \in {"err", "incomplete"}

(***************************************************************************)
(* read_frame on a peer's bytes: SpecReader.                               *)
(***************************************************************************)
RECURSIVE Yielded(_)
\* The frames among what read_frame returned.
Yielded(out) ==
    IF out = <<>> THEN <<>>
    ELSE IF Head(out).st = "frame" THEN <<Head(out).frame>> \o Yielded(Tail(out))
    ELSE Yielded(Tail(out))

\* The peer's bytes arrive whole.
WholeStream == rdStream = WriteAll(rdSent)

\* The text of f, or of an entry of f, holds "\r\n".
HasCrLf(text) == \E i \in 1..(Len(text) - 1) : text[i] = CR /\ text[i + 1] = LF
TextHasCrLf(f) ==
    \/ f.type \in {"Simple", "Error"} /\ HasCrLf(f.val)
    \/ f.type = "Array" /\
          \E i \in 1..Len(f.val) : f.val[i].type \in {"Simple", "Error"} /\ HasCrLf(f.val[i].val)

\* read_frame has returned the first frames the peer wrote, in order and
\* unchanged; their bytes are gone from the buffer, the bytes after them are
\* in the buffer or still to be read; no call has failed unless the peer
\* closed inside a frame; and once the whole stream has been read, every frame
\* has been returned and then the end of the stream.
DecodedSoFar ==
    LET ys == Yielded(rdOut)
    IN  /\ Len(ys) <= Len(rdSent)
        /\ \A i \in 1..Len(ys) : ys[i] = rdSent[i]
        /\ WriteAll(ys) \o rdBuf \o rdSock = rdStream
        /\ \A i \in 1..Len(rdOut) : rdOut[i] # ReadErr("protocol")
        /\ \A i \in 1..Len(rdOut) : rdOut[i] = ReadErr("closed") => ~WholeStream
        /\ (rdPc = "done" /\ WholeStream) =>
               /\ ys = rdSent
               /\ rdOut[Len(rdOut)] = Eof

\* C23: whatever frames the peer wrote and however their bytes are cut into
\* reads, read_frame returns exactly those frames in order, waits on every
\* strict prefix of a frame and keeps the bytes that follow a frame.
IncrementalDecode == rdPc # "idle" => DecodedSoFar

\* The reply of Unknown::apply to a name holding "\r\n" came back as another
\* Error frame followed by a protocol error.
C23Witness ==
    /\ rdPc = "done"
    /\ rdSent = <<Error(<<"a", CR, LF, "a">>)>>
    /\ WholeStream
    /\ rdOut = <<Yield(Error(<<"a">>)), ReadErr("protocol")>>
    /\ rdBuf = <<"a", CR, LF>>

\* The same for frames whose texts hold no "\r\n".
PlainIncrementalDecode ==
    (rdPc # "idle" /\ \A i \in 1..Len(rdSent) : ~TextHasCrLf(rdSent[i])) => DecodedSoFar

\* C29: when read_buf finds the stream at its end, read_frame returns
\* Ok(None) exactly when the buffer is empty, and then the frames returned
\* account for every byte received; it returns the error of a closed
\* connection when the buffer is not empty; and the buffer holds no complete
\* frame then, every one having been returned by an earlier call.
EndOfStream ==
    [][(rdPc = "read" /\ rdPc' = "done") =>
          LET last == rdOut'[Len(rdOut')]
          IN  /\ rdSock = <<>>
              /\ last = Eof <=> rdBuf = <<>>
              /\ rdBuf # <<>> => last = ReadErr("closed")
              /\ rdBuf = <<>> => WriteAll(Yielded(rdOut)) = rdStream
              /\ ParseFrameBytes(rdBuf).st = "none"
              /\ rdOut' = Append(rdOut, last)
              /\ \A i \in 1..Len(rdOut) : rdOut[i].st = "frame"]_vars

\* The peer closed inside its second frame: the first was returned, then the
\* error.
C29Witness ==
    /\ rdPc = "done"
    /\ rdSent = <<Integer(1), Bulk(<<"a">>)>>
    /\ rdStream = <<":", "1", CR, LF, "$", "1", CR, LF, "a">>
    /\ rdBuf = <<"$", "1", CR, LF, "a">>
    /\ rdOut = <<Yield(Integer(1)), ReadErr("closed")>>

\* The peer closed after whole frames: they were returned, then Ok(None).
CleanClose ==
    (rdPc = "done" /\ rdOut[Len(rdOut)] = Eof) =>
        /\ rdBuf = <<>>
        /\ WriteAll(Yielded(rdOut)) = rdStream

(***************************************************************************)
(* The shutdown signal, the permits and a failing accept: SpecServer,      *)
(* LiveServer and LiveAccept.                                              *)
(***************************************************************************)
\* C31: no handler misses the signal.  When the broadcast sender is dropped
\* the accept loop has been cancelled, so every handler there is was built,
\* with its Receiver, before the drop, and none is built after it; for every
\* handler inside Handler::run shutdown.recv() is ready from then on, and the
\* handlers all leave Handler::run.
NoMissedSignal ==
    /\ [](~notifyAlive =>
             /\ lPc \in {"cancelled", "failed"}
             /\ Listener \notin permitHeld
             /\ \A c \in InHandlerRun : ShutdownRecvReady(c))
    /\ [][~notifyAlive =>
             /\ spawned' = spawned
             /\ \A c \in Conns : hPc[c] = "none" => hPc'[c] = "none"]_vars
    /\ (~notifyAlive) ~> (InHandlerRun = {})

\* The sender has just been dropped with two handlers inside Handler::run
\* that have not seen the signal yet, and a connection not yet accepted.
C31Witness ==
    /\ ~notifyAlive
    /\ runPc = "drop_tx"
    /\ Cardinality(InHandlerRun) >= 2
    /\ \A c \in InHandlerRun : ~isShutdown[c]
    /\ spawned < MaxConns

\* The permit of the accept loop: 1 from acquire_owned to the spawn, else 0.
ListenerPermit == IF Listener \in permitHeld THEN 1 ELSE 0

\* C32: the permits available, those of handler tasks and the one the accept
\* loop holds while it is in Listener::accept add up to MAX_CONNECTION; a
\* handler task holds its permit from the spawn to the drop(permit) that
\* follows Handler::run, gives it up in that one step whatever run returned,
\* and never holds one again; the accept loop holds none once it has failed
\* or been cancelled.
PermitConservation ==
    /\ [](/\ permits + Cardinality(Admitted) + ListenerPermit = MAX_CONNECTION
          /\ Listener \in permitHeld <=> lPc \in {"accept", "sleep"}
          /\ Admitted = InHandlerRun \cup {c \in Conns : hPc[c] = "returned"})
    /\ [][\A c \in Conns :
             /\ (c \in permitHeld /\ c \notin permitHeld') =>
                    /\ hPc[c] = "returned"
                    /\ hPc'[c] = "released"
                    /\ permits' = permits + 1
             /\ (c \notin permitHeld /\ hPc[c] # "none") => c \notin permitHeld']_vars

\* The accept loop has failed for good while it held a permit; one task has
\* ended after an error, another still holds its permit.
C32Witness ==
    /\ lPc = "failed"
    /\ permits = MAX_CONNECTION - 1
    /\ \E c \in Conns : hPc[c] = "done" /\ hResult[c] = "err"
    /\ \E c \in Conns : c \in permitHeld /\ hPc[c] = "apply"

\* C40: when Listener::run ends with an error, server::run goes through the
\* same steps as on a signal: run is past its select only with the accept
\* loop ended, waits on the mpsc receiver only with the broadcast sender
\* dropped, is past that wait only when no handler task is left, drops the
\* store's guard only then, and does return.
FatalAcceptShutdown ==
    /\ [](lPc = "failed" =>
             /\ runPc # "select"
             /\ runPc \in {"recv", "drop_guard", "returned"} => ~notifyAlive
             /\ runPc \in {"drop_guard", "returned"} => Unfinished = {} /\ txHolders = {}
             /\ guardPc # "held" => runPc \in {"drop_guard", "returned"})
    /\ (lPc = "failed") ~> (runPc = "returned" /\ guardPc = "dropped")

\* The accept loop has failed with no signal given, and server::run waits
\* for a handler in a subscribe session and a task that has yet to end.
C40Witness ==
    /\ lPc = "failed"
    /\ ~sigint
    /\ runPc = "recv"
    /\ \E c \in Conns : hPc[c] = "session" /\ ~isShutdown[c]
    /\ \E c \in Conns : hPc[c] = "released"

(***************************************************************************)
(* More claims about the store: SpecDb, LiveDb and SpecVis.                *)
(***************************************************************************)
\* The purge task is suspended in sleep_until or in notified().
Suspended == purgerPc \in {"sleep", "wait"}

\* What the purge task waits for covers the index: it sleeps until an instant
\* no later than any in the index, or waits without one on an empty index.
WaitCoversIndex ==
    IF purgerPc = "sleep"
    THEN \A e \in expirations : purgerWhen[1] <= e[1]
    ELSE expirations = {}

\* C33 as stated: while the purge task is suspended and the store is not shut
\* down, a permit is pending or its wait covers the index.
NeverOversleeps == (Suspended /\ ~shutdown) => (bgPermit \/ WaitCoversIndex)

\* A call of Db::set has released the lock with `notify` true and has not
\* called notify_one yet.
NotifyOwed == \E c \in Clients : cPc[c] = "notify" /\ cNotify[c]

\* C33, amended: while the purge task is suspended and the store is not shut
\* down, a permit is pending, or a Db::set that has released the lock is about
\* to notify, or its wait covers the index.
NeverOversleepsLong ==
    (Suspended /\ ~shutdown) => (bgPermit \/ NotifyOwed \/ WaitCoversIndex)

\* The purge task sleeps until instant 2 while k1, due at 1, is in the index
\* and Db::set has yet to call notify_one.
C33Witness ==
    /\ purgerPc = "sleep"
    /\ purgerWhen = Some(2)
    /\ <<1, "k1">> \in expirations
    /\ ~bgPermit
    /\ ~shutdown
    /\ cPc["c1"] = "notify"
    /\ cNotify["c1"]


\* ---------------------------------------------------------------------------
\* Overwriting an entry that has an expiration with another expiration
\* ---------------------------------------------------------------------------

\* The tuples the index holds for key k.
TuplesOf(k) == {e \in expirations : e[2] = k}

\* C34: after a SET with an expiration replaced, before it was reached, the
\* expiration of key k by a second one, the index holds exactly one tuple for
\* k and it carries the second instant, as the entry does; k leaves the map
\* only once the second instant is reached, so not at the first instant when
\* the second is later, and without waiting for the first when the second is
\* earlier: once the second instant is reached and nobody sets k again, the
\* task removes k unless the store is shut down, whatever the clock does.
OverwriteMovesDeadline ==
    /\ [](\A k \in DOMAIN moved :
             /\ lastSet[k].expires_at # None
             /\ k \in DOMAIN entries =>
                    /\ entries[k].expires_at = lastSet[k].expires_at
                    /\ TuplesOf(k) = {<<lastSet[k].expires_at[1], k>>}
             /\ k \notin DOMAIN entries =>
                    /\ TuplesOf(k) = {}
                    /\ lastSet[k].expires_at[1] <= now)
    /\ [][\A k \in DOMAIN moved :
             (k \in DOMAIN entries /\ k \notin DOMAIN entries') =>
                 /\ purgerPc = "purge"
                 /\ now' = now
                 /\ k \in DOMAIN moved']_vars
    /\ \A k \in Keys :
           (k \in DOMAIN moved /\ Overdue(k) /\ ~shutdown)
               ~> (k \notin DOMAIN entries \/ ~Overdue(k) \/ shutdown)

\* The second instant was earlier than the first: the key is gone at the
\* second instant, before the clock reached the first one.
C34Witness ==
    /\ "k1" \in DOMAIN moved
    /\ lastSet["k1"].expires_at = Some(0)
    /\ moved["k1"] = 1
    /\ now = 0
    /\ "k1" \notin DOMAIN entries
    /\ ~shutdown

\* The second instant was later than the first: the key is still there when
\* the clock has passed the first one and the task has run.
OutlivesFirstDeadline ==
    /\ "k1" \in DOMAIN moved
    /\ moved["k1"] = 1
    /\ lastSet["k1"].expires_at = Some(2)
    /\ now = 1
    /\ "k1" \in DOMAIN entries
    /\ purgerPc = "sleep"
    /\ purgerWhen = Some(2)


\* ---------------------------------------------------------------------------
\* Db::get and the expiration of the entry it reads
\* ---------------------------------------------------------------------------

\* Connection c takes the step that applies GET k.
GetStep(c, k) == cPc[c] = "select" /\ cCmd'[c] = GetCmd(k)

\* C35: a GET of k is answered with the data of k's entry exactly when the map
\* has an entry for k, whatever the entry's expiration and the clock are, and
\* Null otherwise, and it leaves the map, the index, the notifier and the
\* purge task as they are; a key leaves the map only by a pass of the purge
\* task made while the store is not shut down, so it stays readable after its
\* expiration instant until that pass, and for good once the task has exited.
GetIgnoresExpiry ==
    /\ [][\A c \in Clients, k \in Keys :
             GetStep(c, k) =>
                 /\ cResp'[c] = IF k \in DOMAIN entries
                                THEN Bulk(entries[k].data) ELSE Null
                 /\ UNCHANGED <<entries, expirations, bgPermit, shutdown,
                                purgerPc, purgerWhen, now>>]_vars
    /\ [][\A k \in DOMAIN entries :
             k \notin DOMAIN entries' =>
                 /\ purgerPc = "purge"
                 /\ ~shutdown
                 /\ Overdue(k)]_vars
    /\ [][(purgerPc = "exit" \/ shutdown) =>
             (\A k \in DOMAIN entries : k \in DOMAIN entries')]_vars

\* A GET is answered with the data of an entry whose expiration instant has
\* passed while the purge task is still asleep.
C35Witness ==
    \E k \in Keys :
        /\ Overdue(k)
        /\ entries[k].expires_at[1] < now
        /\ ~shutdown
        /\ purgerPc = "sleep"
        /\ cPc["c1"] = "write"
        /\ cCmd["c1"] = GetCmd(k)
        /\ cResp["c1"] = Bulk(entries[k].data)

\* The same once the purge task has exited: the entry stays.
ReadableAfterExit ==
    \E k \in Keys :
        /\ Overdue(k)
        /\ purgerPc = "exit"
        /\ cPc["c1"] = "write"
        /\ cCmd["c1"] = GetCmd(k)
        /\ cResp["c1"] = Bulk(entries[k].data)


(***************************************************************************)
(* The order of the messages of one session: SpecOrder.                    *)
(***************************************************************************)
\* The frames of a session's output that are messages of channel ch.
IsMessageOf(f, ch) ==
    /\ f.type = "Array"
    /\ Len(f.val) = 3
    /\ f.val[1] = Bulk("message")
    /\ f.val[2] = Bulk(ch)
IsMessage(f) == \E ch \in Channels : IsMessageOf(f, ch)

\* The position in the order of sending of the value with payload m, 0 when
\* no value sent carries m.
SentAt(m) ==
    IF \E i \in 1..Len(pubLog) : Payload(i) = m
    THEN CHOOSE i \in 1..Len(pubLog) : Payload(i) = m
    ELSE 0

\* The positions, in the order of sending, of the payloads of the messages of
\* ch that session s has written, in the order it wrote them.
Delivered(s, ch) ==
    LET at == SelectSeq(sOut[s], LAMBDA f : IsMessageOf(f, ch))
    IN  [i \in 1..Len(at) |-> SentAt(at[i].val[3].val)]

EarlierValueSkipped ==
    /\ sReq["s1"] = <<"ch1", "ch1">>
    /\ pubLog = <<"ch1", "ch1">>
    /\ sBorn["s1"].map = [c \in {"ch1"} |-> 1]
    /\ sPc["s1"] = "loop"
    /\ sRx["s1"]["ch1"].q = <<>>
    /\ sOut["s1"] = <<MakeSubscribeFrame("ch1", 1), MakeSubscribeFrame("ch1", 1),
                      MakeMessageFrame("ch1", Payload(2))>>


\* ---------------------------------------------------------------------------
\* A SUBSCRIBE that names a channel more than once
\* ---------------------------------------------------------------------------

\* The SUBSCRIBE being served names a channel more than once.
HasRepeat(s) == \E i, j \in DOMAIN sReq[s] : i < j /\ sReq[s][i] = sReq[s][j]

\* The number written in the i-th acknowledgement is the number of distinct
\* names among the first i of the request.
AcksCountDistinct(s) ==
    \A i \in 1..Len(sOut[s]) :
        i <= Len(sReq[s]) =>
            sOut[s][i] = MakeSubscribeFrame(sReq[s][i],
                                            Cardinality({sReq[s][j] : j \in 1..i}))

\* In its loop the session holds one stream for each distinct name.
OneStreamPerName(s) ==
    sPc[s] = "loop" => sStreams[s] = Range(sReq[s]) /\ DOMAIN sRx[s] = Range(sReq[s])

\* No value is written twice for one channel.
AtMostOnce(s) ==
    \A ch \in Channels :
        \A i, j \in 1..Len(Delivered(s, ch)) :
            i < j => Delivered(s, ch)[i] < Delivered(s, ch)[j]

\* A value that a stream of the StreamMap has to yield stays there until the
\* session writes it, unless the session ends or the Receiver lags.
NothingDiscarded(s) ==
    \A ch \in sStreams[s] : \A m \in Range(sRx[s][ch].q) :
        \/ ch \in sStreams'[s] /\ m \in Range(sRx'[s][ch].q)
        \/ sMsg'[s] = MakeMessageFrame(ch, m)
        \/ sPc'[s] \in {"drop", "idle"}
        \/ ch \in sStreams'[s] /\ sRx'[s][ch].lagged

\* C37 as stated: while a session serves a SUBSCRIBE that names a channel more
\* than once, its StreamMap holds one stream per distinct name, the
\* acknowledgements count the distinct names, a PUBLISH counts the session
\* once, and a value published to a channel the session holds is delivered to
\* it once: not twice, and not dropped unread.
DuplicateNames ==
    /\ [](HasRepeat("s1") =>
             /\ OneStreamPerName("s1")
             /\ AcksCountDistinct("s1")
             /\ AtMostOnce("s1")
             /\ lastPub # None => lastPub[1].n = lastPub[1].sessions)
    /\ [][HasRepeat("s1") => NothingDiscarded("s1")]_vars

\* What holds of C37: one stream per distinct name, acknowledgements that
\* count the distinct names, no value written twice, and a PUBLISH that
\* counts the session once, or twice while the session holds both the stream
\* and the Receiver about to replace it.
RepeatedNames ==
    HasRepeat("s1") =>
        /\ OneStreamPerName("s1")
        /\ AcksCountDistinct("s1")
        /\ AtMostOnce("s1")
        /\ lastPub # None => lastPub[1].n = lastPub[1].sessions + lastPub[1].twice

\* SUBSCRIBE ch1 ch1: a PUBLISH made between the second db.subscribe and the
\* insert that replaces the first stream was answered 2, and the value sent
\* before it, which the first stream held, is gone unread.
C37Witness ==
    /\ sReq["s1"] = <<"ch1", "ch1">>
    /\ sPc["s1"] = "ack"
    /\ pubLog = <<"ch1", "ch1">>
    /\ sBorn["s1"].map = [c \in {"ch1"} |-> 1]
    /\ lastPub # None
    /\ lastPub[1].n = 2
    /\ lastPub[1].sessions = 1
    /\ sRx["s1"]["ch1"].q = <<Payload(2)>>
    /\ ~sRx["s1"]["ch1"].lagged
    /\ sOut["s1"] = <<MakeSubscribeFrame("ch1", 1)>>


(***************************************************************************)
(* Clients that close their sockets: LivePeer.                             *)
(***************************************************************************)
\* The handler of c is in a subscribe session and its client has closed the
\* socket.
Orphaned(c) == hPc[c] = "session" /\ hungUp[c] # "no"

ClosedMidFrame ==
    \E c \in Conns :
        /\ hungUp[c] = "midframe"
        /\ hPc[c] = "done"
        /\ hResult[c] = "err"
        /\ ~isShutdown[c]
        /\ permits = MAX_CONNECTION
        /\ ~sigint


\* When Subscribe::apply has returned and its StreamMap is dropped the session
\* holds no Receiver, and the count of every channel, which is what PUBLISH
\* replies, is the number of Receivers that sessions hold.
EndedHoldsNothing ==
    /\ \A s \in Sessions : sPc[s] = "idle" => sStreams[s] = {} /\ sLocal[s] = None
    /\ \A ch \in DOMAIN pubSub : pubSub[ch] = LiveReceivers(ch)


(***************************************************************************)
(* Sessions ended by their clients: LiveResume.                            *)
(***************************************************************************)
\* C39: the step by which a session ends on the client's Simple("shutdown")
\* leaves the handler inside Handler::run at its select, is_shutdown false,
\* nothing returned, its permit and its completion sender held; from there,
\* until the client closes the socket, a command frame, a SUBSCRIBE included,
\* is read as on a new connection, and the command it carries is applied and
\* answered, after which the handler is at its select again or has returned
\* on a failed write.
ReturnToCommandMode ==
    /\ [][\A c \in Conns :
             (c \notin resumed /\ c \in resumed') =>
                 /\ hPc[c] = "session"
                 /\ hPc'[c] = "select"
                 /\ ~isShutdown'[c]
                 /\ ~peerClosed'[c]
                 /\ hResult'[c] = "none"
                 /\ c \in permitHeld'
                 /\ c \in txHolders']_vars
    /\ [](\A c \in resumed :
             (hPc[c] = "select" /\ ~peerClosed[c]) =>
                 /\ ENABLED HandlerReadFrame(c, "command")
                 /\ ENABLED HandlerReadFrame(c, "subscribe"))
    /\ [][\A c \in resumed :
             (hPc[c] = "apply" /\ hPc'[c] # "apply") =>
                 \/ hPc'[c] = "select" /\ ~isShutdown'[c]
                 \/ hPc'[c] = "returned" /\ hResult'[c] = "err"]_vars
    /\ \A c \in Conns : (c \in resumed /\ hPc[c] = "apply") ~> (hPc[c] # "apply")

\* A handler whose client ended a session is applying a command while the
\* server runs.
C39Witness ==
    \E c \in Conns :
        /\ c \in resumed
        /\ hPc[c] = "apply"
        /\ ~isShutdown[c]
        /\ notifyAlive
        /\ ~sigint

====
